---------------------------- MODULE Spec2Model ----------------------------
(***************************************************************************)
(* A model of the TobyPlus chat widget (src/chatbot.js): the speech queue  *)
(* and the platform speech synthesizer, the replay control, the            *)
(* conversation turn protocol (start-run / check-run), and the recording   *)
(* pipeline (mic toggle, capture sessions, silence detector, finalizer,    *)
(* transcription).                                                         *)
(*                                                                         *)
(* Every event-loop task of the page is one action: a DOM event handler or *)
(* the continuation of an async function after an await, run up to its     *)
(* next await, together with the promise reactions (microtasks) it         *)
(* triggers.  The browser and the remote services are the environment:     *)
(* their answers are chosen with \E from small sets.                       *)
(*                                                                         *)
(* Texts are sequences of one-character strings, with " " for white space, *)
(* "<s>" for an HTML tag, and the ASCII characters "[", "]" and "+" for    *)
(* the brackets and the dagger of a citation marker.  The variants under   *)
(* src/unnamed are modelled where they differ (names ending in _p0 belong  *)
(* to part_000), the transcribe proxy in a section of its own.             *)
(***************************************************************************)
EXTENDS Integers, Sequences, FiniteSets, TLC

VARIABLES
    \* ---- transcript (DOM) ----
    bubbles,        \* the message bubbles created so far, in creation order
    inputValue,     \* input.value
    \* ---- speech queue and platform synthesizer ----
    utt,            \* the functions passed to enqueueSpeech, in arrival order
    synthQ,         \* window.speechSynthesis' utterance queue (0 = unlockSpeech's ".")
    synthSpeaking,  \* the head of synthQ is being spoken
    synthFails,     \* calls of the synthesizer throw (the platform refuses them)
    audios,         \* the Audio elements created by replay clicks
    ttsRequests,    \* history: the number of requests sent to the tts endpoint
    \* ---- conversation ----
    thread_id,      \* let thread_id
    turns,          \* one record per invocation of the submit handler
    nextThread,     \* the service: number of threads it has created
    startLog,       \* history: start-run requests and successful responses, in order
    \* ---- recording ----
    isRecording,    \* let isRecording
    hasStopped,     \* let hasStopped
    mediaRecorder,  \* let mediaRecorder: the session whose recorder it is (0 = null)
    mediaStream,    \* let mediaStream: the session whose stream it is (0 = null)
    chunks,         \* let chunks: the number of fragments pushed
    micLabel,       \* micBtn.textContent
    micClicks,      \* mic click handlers suspended at `await unlockAutoplay()`
    sess,           \* one record per call of startRecording
    stopRepeats,    \* history: calls of stopRecording that found hasStopped set
    transcriptionInProgress,  \* let transcriptionInProgress (part_000 only)
    \* ---- the user ----
    presses,        \* how often each control has been used
    \* ---- the transcribe proxy (netlify/functions/transcribe.js) ----
    proxy           \* the invocation of exports.handler at hand

chatVars  == <<thread_id, turns, nextThread, startLog>>
uiVars    == <<bubbles, utt, synthQ, synthSpeaking, ttsRequests>>
recVars   == <<isRecording, hasStopped, mediaRecorder, mediaStream, chunks,
               micLabel, micClicks, sess, stopRepeats, transcriptionInProgress>>
vars == <<bubbles, inputValue, utt, synthQ, synthSpeaking, audios, ttsRequests,
          thread_id, turns, nextThread, startLog,
          isRecording, hasStopped, mediaRecorder, mediaStream, chunks,
          micLabel, micClicks, sess, stopRepeats, transcriptionInProgress,
          presses, proxy, synthFails>>

-----------------------------------------------------------------------------
(* Bounds of the model                                                     *)

MaxTurns  == 3      \* submit events
MaxPollTurns == 1   \* submit events, where the runs are polled more than once
MaxPolls  == 2      \* 202 answers per run
MaxReplay == 2      \* replay clicks
MaxStops  == 1      \* Stop Talking presses
MaxSess   == 2      \* calls of startRecording
MaxClicks == 4      \* mic clicks
MaxFrames == 2      \* animation frames
MaxPieces == 4      \* pieces of a reply text with citation markers
MaxRetryTurns == 2  \* submit events, where turns fail
MaxRestartSess == 3 \* calls of startRecording, where a recording is restarted
MaxOverlapTurns == 2 \* submit events, where the poll loops of turns overlap

-----------------------------------------------------------------------------
(* Texts                                                                   *)

NULL  == "null"
UNDEF == "undefined"

RECURSIVE TrimLeft(_)
TrimLeft(s) == IF s # <<>> /\ Head(s) = " " THEN TrimLeft(Tail(s)) ELSE s

RECURSIVE TrimRight(_)
TrimRight(s) ==
    IF s # <<>> /\ s[Len(s)] = " " THEN TrimRight(SubSeq(s, 1, Len(s) - 1)) ELSE s

\* String.prototype.trim
Trim(s) == TrimRight(TrimLeft(s))

IsTag(c) == c = "<s>"

RECURSIVE stripHtmlTags(_)
\* stripHtmlTags: the text content of the markup
stripHtmlTags(s) ==
    IF s = <<>> THEN <<>>
    ELSE IF IsTag(Head(s)) THEN stripHtmlTags(Tail(s))
    ELSE <<Head(s)>> \o stripHtmlTags(Tail(s))

\* the character classes of the citation pattern
\*   /\u3010\d+:\d+\u2020[^\u2020\u3010\u3011]+(?:\u2020[^\u3010\u3011]*)?\u3011/g
\* with "[" for U+3010, "]" for U+3011 and "+" for U+2020 (the dagger)
InClass(c, cls) ==
    IF cls = "digit" THEN c \in {"0", "1", "2", "3", "4", "5", "6", "7", "8", "9"}
    ELSE IF cls = "label" THEN c \notin {"+", "[", "]"}
    ELSE c \notin {"[", "]"}

RECURSIVE RunEnd(_, _, _)
\* the position after the longest run of characters of class cls from i on
RunEnd(s, i, cls) ==
    IF i <= Len(s) /\ InClass(s[i], cls) THEN RunEnd(s, i + 1, cls) ELSE i

\* the position after the match of the pattern that starts at i, or 0 when no
\* match starts there (the quantifiers are greedy; giving characters back
\* never helps, as each run must be followed by a character outside its class)
MatchEnd(s, i) ==
    IF i > Len(s) \/ s[i] # "[" THEN 0
    ELSE LET d1 == RunEnd(s, i + 1, "digit")
         IN  IF d1 = i + 1 \/ d1 > Len(s) \/ s[d1] # ":" THEN 0
             ELSE LET d2 == RunEnd(s, d1 + 1, "digit")
                  IN  IF d2 = d1 + 1 \/ d2 > Len(s) \/ s[d2] # "+" THEN 0
                      ELSE LET l == RunEnd(s, d2 + 1, "label")
                           IN  IF l = d2 + 1 \/ l > Len(s) THEN 0
                               ELSE IF s[l] = "]" THEN l + 1
                               ELSE IF s[l] = "+"
                                    THEN LET x == RunEnd(s, l + 1, "extra")
                                         IN  IF x <= Len(s) /\ s[x] = "]"
                                             THEN x + 1 ELSE 0
                                    ELSE 0

RECURSIVE StripFrom(_, _)
\* String.prototype.replace with a global pattern: one pass from left to
\* right, going on after each match
StripFrom(s, i) ==
    IF i > Len(s) THEN <<>>
    ELSE IF MatchEnd(s, i) # 0 THEN StripFrom(s, MatchEnd(s, i))
    ELSE <<s[i]>> \o StripFrom(s, i + 1)

stripCitations(s) == StripFrom(s, 1)

Marker == <<"[", "1", ":", "1", "+", "a", "]">>        \* a citation marker
CitedReply == <<"h">> \o Marker

SpinnerText   == <<"<s>", " ", "T">>       \* '<span class="spinner"></span> Toby is thinking...'
ApologyText   == <<"M", "y">>              \* 'My circuits got tangled ...'
NoResponse    == <<"(", ")">>              \* '(No response)'
MicErrorText  == <<"I", " ", "c">>         \* "I can't access your microphone ..."
CouldntText   == <<"I", " ", "x">>         \* "I couldn't transcribe that audio ..."
DidntCatch    == <<"I", " ", "d">>         \* "I didn't catch that ..."
WentWrongText == <<"S", "o">>              \* 'Something went wrong with transcription ...'

\* texts made of up to n pieces of markers
Pieces == {<<"h">>, <<"[", "1", ":">>, <<"1", "+", "a">>, <<"]">>, <<"+", "x", "]">>, Marker}

RECURSIVE Concats(_)
Concats(n) ==
    IF n = 0 THEN {<<>>}
    ELSE Concats(n - 1) \cup {x \o y : x \in Concats(n - 1), y \in Pieces}

CitedTexts == Concats(MaxPieces)

\* what the user may type, and what the services may answer
InputTexts == {<<>>, <<" ", "a">>}
Replies    == {<<>>, CitedReply}
ThreadIds  == {"T1", "T2", "T3"}
ThreadName(n) == IF n = 1 THEN "T1" ELSE IF n = 2 THEN "T2" ELSE "T3"

-----------------------------------------------------------------------------
(* Speech queue and synthesizer                                            *)
(*                                                                         *)
(* An entry of utt is one function passed to enqueueSpeech:                *)
(*   "queued"   its turn in the promise chain has not come                 *)
(*   "synth"    it has run: its utterance is in the synthesizer's queue    *)
(*   "settling" cancel() removed its utterance; the event is not yet       *)
(*              dispatched                                                 *)
(*   "done"     onend or onerror has run and resolved its promise, or the  *)
(*              function threw and the catch of the chain took the error   *)
(*   "rejected" (only where the chain has no catch) the function threw     *)
(* threw is history: the function threw; so is stops: the number of Stop   *)
(* Talking presses made before the function was enqueued.                 *)

UI == [bubbles |-> bubbles, utt |-> utt, synthQ |-> synthQ, speaking |-> synthSpeaking,
       ttsRequests |-> ttsRequests]

SetUI(ui) ==
    /\ bubbles' = ui.bubbles
    /\ utt' = ui.utt
    /\ synthQ' = ui.synthQ
    /\ synthSpeaking' = ui.speaking
    /\ ttsRequests' = ui.ttsRequests

Min(S) == CHOOSE x \in S : \A y \in S : x <= y

\* window.speechSynthesis.cancel(): every utterance leaves the synthesizer's
\* queue and speaking ceases; an utterance with handlers gets its event later
SynthCancel(ui) ==
    [ui EXCEPT !.synthQ = <<>>,
               !.speaking = FALSE,
               !.utt = [i \in DOMAIN ui.utt |->
                          IF ui.utt[i].st = "synth"
                          THEN [ui.utt[i] EXCEPT !.st = "settling"]
                          ELSE ui.utt[i]]]

\* window.speechSynthesis.speak(u)
SynthSpeak(ui, u) == [ui EXCEPT !.synthQ = Append(@, u)]

\* a slip: `speechQueue = speechQueue.then(fn)` without the catch, so that
\* the chain stays rejected once a function has thrown
RunFn_uncaught(ui, i) ==
    IF synthFails
    THEN [ui EXCEPT !.utt[i].st = "rejected", !.utt[i].threw = TRUE]
    ELSE LET c == SynthCancel(ui)
         IN  SynthSpeak([c EXCEPT !.utt[i].st = "synth"], i)

\* the function speakBrowser passes to enqueueSpeech: cancel(), then speak.
\* When the synthesizer throws, the promise of the function rejects and the
\* catch of enqueueSpeech takes the error: the chain is settled again
RunFn(ui, i) ==
    IF synthFails
    THEN [ui EXCEPT !.utt[i].st = "done", !.utt[i].threw = TRUE]
    ELSE LET c == SynthCancel(ui)
         IN  SynthSpeak([c EXCEPT !.utt[i].st = "synth"], i)

RECURSIVE Pump(_)
\* the promise chain: the first function still waiting runs once every
\* earlier one has settled, and so does the next if it settles at once
Pump(ui) ==
    LET q == {i \in DOMAIN ui.utt : ui.utt[i].st = "queued"}
    IN  IF q = {} THEN ui
        ELSE IF \A j \in 1..(Min(q) - 1) : ui.utt[j].st = "done"
             THEN LET r == RunFn(ui, Min(q))
                  IN  IF r.utt[Min(q)].st = "done" THEN Pump(r) ELSE r
             ELSE ui

\* a slip: the chain is not advanced (speechQueue.then(fn) without the
\* assignment), so every function runs at once
enqueueSpeech_unchained(ui, u) ==
    RunFn([ui EXCEPT !.utt = Append(@, u)], Len(ui.utt) + 1)

enqueueSpeech(ui, u) == Pump([ui EXCEPT !.utt = Append(@, u)])

\* onend / onerror of utterance i: resolve, and the chain goes on
Resolve(ui, i) == Pump([ui EXCEPT !.utt[i].st = "done"])

speakBrowser(ui, text, b, auto) ==
    IF Trim(stripHtmlTags(text)) = <<>> THEN ui
    ELSE enqueueSpeech(ui, [st |-> "queued", bubble |-> b, auto |-> auto,
                            threw |-> FALSE, stops |-> presses.stop])

\* unlockSpeech: a silent "." spoken outside the speech queue (in a try
\* block: a throw of the synthesizer is logged)
unlockSpeech(ui) == IF synthFails THEN ui ELSE SynthSpeak(ui, 0)

\* a slip: a replay click asks the tts endpoint again
ReplayAudio_refetch(ui, b) == [ui EXCEPT !.ttsRequests = @ + 1]

\* what a replay click does to the transcript and the speech queue: with a
\* cached audio nothing (the audio is played), else speakBrowser(cleaned)
ReplayAudio(ui, b) ==
    IF ui.bubbles[b].tts = "ok" THEN ui
    ELSE speakBrowser(ui, ui.bubbles[b].text, b, FALSE)

\* generateServerTTS(cleaned) for bubble b, up to `await fetch`
generateServerTTS(ui, b) ==
    [ui EXCEPT !.bubbles[b].tts = "pending", !.ttsRequests = @ + 1]

\* createBubble(content, sender, narrate); a bot bubble is narrated (unless
\* narrate is false) and its audio is requested from the tts endpoint
createBubble(ui, content, sender, narrate) ==
    LET b == Len(ui.bubbles) + 1
        cleaned == stripCitations(content)
    IN  IF sender = "bot"
        THEN LET withB == [ui EXCEPT !.bubbles = Append(@,
                               [sender |-> "bot", text |-> cleaned,
                                narrate |-> narrate, attached |-> TRUE,
                                tts |-> "none"])]
                 spoken == IF narrate THEN speakBrowser(withB, cleaned, b, TRUE)
                           ELSE withB
             IN  generateServerTTS(spoken, b)
        ELSE [ui EXCEPT !.bubbles = Append(@,
                               [sender |-> "user", text |-> content,
                                narrate |-> FALSE, attached |-> TRUE,
                                tts |-> "none"])]

\* a slip: the narrate argument left out (it defaults to true)
showSpinner_narrated(ui) == createBubble(ui, SpinnerText, "bot", TRUE)

showSpinner(ui) == createBubble(ui, SpinnerText, "bot", FALSE)

\* thinkingBubble.remove()
RemoveBubble(ui, b) == [ui EXCEPT !.bubbles[b].attached = FALSE]

\* the entries of class 'bot-message' in the transcript: createBubble appends
\* a wrapper (avatar, bubble, replay control) to messages for every bot
\* bubble and returns the bubble inside it; nothing removes a wrapper
BotMessages(ui) == {b \in DOMAIN ui.bubbles : ui.bubbles[b].sender = "bot"}

Press(c) == presses' = [presses EXCEPT ![c] = @ + 1]

\* the synthesizer starts speaking the head of its queue
SynthStart ==
    /\ synthQ # <<>> /\ ~synthSpeaking
    /\ synthSpeaking' = TRUE
    /\ UNCHANGED <<proxy, synthFails, bubbles, utt, synthQ, ttsRequests, inputValue, audios, chatVars,
                   recVars, presses>>

\* the utterance being spoken ends: onend
SynthEnd ==
    /\ synthQ # <<>> /\ synthSpeaking
    /\ LET u == Head(synthQ)
           rest == [UI EXCEPT !.synthQ = Tail(@), !.speaking = FALSE]
       IN  SetUI(IF u = 0 THEN rest ELSE Resolve(rest, u))
    /\ UNCHANGED <<proxy, synthFails, inputValue, audios, chatVars, recVars, presses>>

\* the utterance at the head fails (synthesis-failed, audio-busy, ...): onerror
SynthError ==
    /\ synthQ # <<>>
    /\ LET u == Head(synthQ)
           rest == [UI EXCEPT !.synthQ = Tail(@), !.speaking = FALSE]
       IN  SetUI(IF u = 0 THEN rest ELSE Resolve(rest, u))
    /\ UNCHANGED <<proxy, synthFails, inputValue, audios, chatVars, recVars, presses>>

\* the event of an utterance removed by cancel() is dispatched: onerror
\* ("interrupted"/"canceled") or, in some browsers, onend
SettleCancelled(i) ==
    /\ utt[i].st = "settling"
    /\ SetUI(Resolve(UI, i))
    /\ UNCHANGED <<proxy, synthFails, inputValue, audios, chatVars, recVars, presses>>

\* stopTalkBtn.onclick
StopTalk ==
    /\ presses.stop < MaxStops
    /\ Press("stop")
    /\ SetUI(IF synthFails THEN UI ELSE SynthCancel(UI))
    /\ UNCHANGED <<proxy, synthFails, inputValue, audios, chatVars, recVars>>

\* the platform begins or ceases to refuse the calls of the synthesizer
SynthBreak ==
    /\ synthFails' = ~synthFails
    /\ UNCHANGED <<proxy, uiVars, inputValue, audios, chatVars, recVars, presses>>

\* generateServerTTS(cleaned).then(...): the tts endpoint answers
TtsResp(b, ok) ==
    /\ bubbles[b].tts = "pending"
    /\ bubbles' = [bubbles EXCEPT ![b].tts = IF ok THEN "ok" ELSE "failed"]
    /\ UNCHANGED <<proxy, synthFails, utt, synthQ, synthSpeaking, ttsRequests, inputValue, audios,
                   chatVars, recVars, presses>>

\* replayBtn.onclick of bubble b
Replay(b) ==
    /\ presses.replay < MaxReplay
    /\ bubbles[b].sender = "bot"
    /\ Press("replay")
    /\ audios' = IF bubbles[b].tts = "ok"
                 THEN Append(audios, [bubble |-> b, st |-> "loading"])
                 ELSE audios
    /\ SetUI(ReplayAudio(UI, b))
    /\ UNCHANGED <<proxy, synthFails, inputValue, chatVars, recVars>>

\* audio.play() of a replayed audio succeeds: playback starts
AudioPlay(a) ==
    /\ audios[a].st = "loading"
    /\ audios' = [audios EXCEPT ![a].st = "playing"]
    /\ UNCHANGED <<proxy, synthFails, uiVars, inputValue, chatVars, recVars, presses>>

\* audio.play() rejects: the catch handler speaks with the local voice
AudioReject(a) ==
    /\ audios[a].st = "loading"
    /\ audios' = [audios EXCEPT ![a].st = "rejected"]
    /\ SetUI(speakBrowser(UI, bubbles[audios[a].bubble].text, audios[a].bubble, FALSE))
    /\ UNCHANGED <<proxy, synthFails, inputValue, chatVars, recVars, presses>>

\* a replayed audio plays to its end
AudioEnd(a) ==
    /\ audios[a].st = "playing"
    /\ audios' = [audios EXCEPT ![a].st = "ended"]
    /\ UNCHANGED <<proxy, synthFails, uiVars, inputValue, chatVars, recVars, presses>>

-----------------------------------------------------------------------------
(* Conversation: the submit handler                                        *)
(*                                                                         *)
(* pc of a turn: "unlock" (await unlockAutoplay), "empty" (returned: no    *)
(* message), "start" (await fetch start-run), "poll" (await fetch          *)
(* check-run), "wait" (await setTimeout), "done" (reply rendered),         *)
(* "failed" (catch block ran).                                             *)

PollDelay == 1000

NoReply == <<"<absent>">>       \* a success body without a reply field

\* a slip: only an empty reply gets the placeholder; a missing one is
\* rendered as the text "undefined"
ReplyOrPlaceholder_emptyOnly(r) ==
    IF r = <<>> THEN NoResponse ELSE IF r = NoReply THEN <<"u">> ELSE r

\* data.reply || '(No response)'
ReplyOrPlaceholder(r) == IF r = NoReply \/ r = <<>> THEN NoResponse ELSE r

NewTurn ==
    [pc |-> "unlock", msg |-> <<>>, reqTid |-> NULL, startSt |-> "none",
     run |-> 0, spinner |-> 0, checks |-> 0, checkTid |-> NULL, n202 |-> 0,
     timer |-> 0, waited |-> 0, gaps |-> {}, reply |-> NoReply,
     replyBubble |-> 0, afterFail |-> 0, thread |-> NULL]

\* the user edits the message input
Type(v) ==
    /\ inputValue # v
    /\ inputValue' = v
    /\ UNCHANGED <<proxy, synthFails, uiVars, audios, chatVars, recVars, presses>>

\* the submit handler up to `await unlockAutoplay()`
SubmitHandler(ui) == unlockSpeech(ui)

\* the form is submitted (Send button or Enter key); at most max times
Submit(max) ==
    /\ Len(turns) < max
    /\ turns' = Append(turns, NewTurn)
    /\ SetUI(SubmitHandler(UI))
    /\ UNCHANGED <<proxy, synthFails, inputValue, audios, thread_id, nextThread, startLog,
                   recVars, presses>>

\* a slip: a busy flag that the catch block does not clear
SendsMessage_busy(message) ==
    message # <<>> /\ \A u \in DOMAIN turns : turns[u].pc # "failed"

\* `if (!message) return;`: nothing else keeps the handler from sending
SendsMessage(message) == message # <<>>

\* after unlockAutoplay: read the input, render the user bubble and the
\* thinking indicator, send start-run with the current thread_id
SubmitResume(t) ==
    /\ turns[t].pc = "unlock"
    /\ LET message == Trim(inputValue)
       IN  IF ~SendsMessage(message)
           THEN /\ turns' = [turns EXCEPT ![t].pc = "empty"]
                /\ UNCHANGED <<uiVars, inputValue, startLog>>
           ELSE LET ui1 == createBubble(UI, message, "user", TRUE)
                    ui2 == showSpinner(ui1)
                IN  /\ SetUI(ui2)
                    /\ inputValue' = <<>>
                    /\ turns' = [turns EXCEPT ![t].pc = "start",
                                              ![t].msg = message,
                                              ![t].spinner = Len(ui2.bubbles),
                                              ![t].reqTid = thread_id]
                    /\ startLog' = Append(startLog, <<"req", thread_id>>)
    /\ UNCHANGED <<proxy, synthFails, audios, thread_id, nextThread, recVars, presses>>

\* the catch block of the submit handler
TurnFailed(ui, t) == createBubble(RemoveBubble(ui, turns[t].spinner), ApologyText, "bot", TRUE)

\* the thread the service answers with: the one the request carries, or a
\* new one when it carries none
ServiceThread(req) == IF req \in ThreadIds THEN req ELSE ThreadName(nextThread + 1)

\* a slip: a thread once adopted is kept
AdoptThread_keepFirst(kind, t) ==
    IF thread_id \in ThreadIds THEN thread_id
    ELSE IF kind = "ok" THEN ServiceThread(turns[t].reqTid) ELSE UNDEF

\* what the handler does with the body of the start-run answer:
\*   thread_id = newThreadId, whatever the status was
AdoptThread(kind, t) == IF kind = "ok" THEN ServiceThread(turns[t].reqTid) ELSE UNDEF

\* the start-run answer arrives: "ok" (success, {thread_id, run_id}),
\* "http_error" (non-success status with a JSON body without these fields),
\* "network" (fetch rejects, or the body is not JSON)
StartRunResp(t, kind) ==
    /\ turns[t].pc = "start"
    /\ IF kind = "network"
       THEN /\ SetUI(TurnFailed(UI, t))
            /\ turns' = [turns EXCEPT ![t].pc = "failed", ![t].startSt = kind]
            /\ UNCHANGED <<thread_id, nextThread, startLog>>
       ELSE /\ thread_id' = AdoptThread(kind, t)
            /\ nextThread' = IF kind = "ok" /\ turns[t].reqTid \notin ThreadIds
                             THEN nextThread + 1 ELSE nextThread
            /\ startLog' = IF kind = "ok"
                           THEN Append(startLog, <<"resp", ServiceThread(turns[t].reqTid)>>)
                           ELSE startLog
            /\ turns' = [turns EXCEPT ![t].pc = "poll",
                                      ![t].startSt = kind,
                                      ![t].run = IF kind = "ok" THEN t ELSE 0,
                                      ![t].checks = 1,
                                      ![t].checkTid = thread_id',
                                      ![t].afterFail = IF kind = "ok" THEN 0 ELSE 1,
                                      ![t].thread =
                                          IF kind = "ok"
                                          THEN ServiceThread(turns[t].reqTid)
                                          ELSE NULL]
            /\ UNCHANGED uiVars
    /\ UNCHANGED <<proxy, synthFails, inputValue, audios, recVars, presses>>

\* a slip: the promise of the timer is not awaited
TimerDue_unawaited(t) == TRUE

\* `await new Promise(r => setTimeout(r, 1000))` lets the loop go on
TimerDue(t) == turns[t].timer = 0

\* the check-run answer arrives: "202", "ok" (success, body r), "error"
\* (another status, or fetch rejects, or the body is not JSON)
CheckRunResp(t, kind, r) ==
    /\ turns[t].pc = "poll"
    /\ \/ /\ kind = "202"
          /\ turns[t].n202 < MaxPolls
          /\ turns' = [turns EXCEPT ![t].pc = "wait",
                                    ![t].n202 = @ + 1,
                                    ![t].timer = PollDelay,
                                    ![t].waited = 0]
          /\ UNCHANGED uiVars
       \/ /\ kind = "ok"
          /\ turns' = [turns EXCEPT ![t].pc = "done", ![t].reply = r,
                                    ![t].replyBubble = Len(bubbles) + 1]
          /\ SetUI(createBubble(RemoveBubble(UI, turns[t].spinner),
                                ReplyOrPlaceholder(r), "bot", TRUE))
       \/ /\ kind = "error"
          /\ turns' = [turns EXCEPT ![t].pc = "failed"]
          /\ SetUI(TurnFailed(UI, t))
    /\ UNCHANGED <<proxy, synthFails, inputValue, audios, thread_id, nextThread, startLog,
                   recVars, presses>>

\* setTimeout(r, 1000) fires: the loop sends the next check-run request
TimerFire(t) ==
    /\ turns[t].pc = "wait"
    /\ TimerDue(t)
    /\ turns' = [turns EXCEPT ![t].pc = "poll",
                              ![t].checks = @ + 1,
                              ![t].checkTid = thread_id,
                              ![t].gaps = @ \cup {turns[t].waited},
                              ![t].afterFail = IF turns[t].startSt = "ok" THEN 0 ELSE @ + 1]
    /\ UNCHANGED <<proxy, synthFails, uiVars, inputValue, audios, thread_id, nextThread, startLog,
                   recVars, presses>>

TimeSteps == {500, 1000}

\* dt ms later: what every pending timer of the poll loops has left, and how
\* long each loop has waited since its last 202
AgeTurns(dt) ==
    [t \in DOMAIN turns |->
        IF turns[t].pc = "wait" /\ turns[t].timer > 0
        THEN [turns[t] EXCEPT !.timer = IF @ > dt THEN @ - dt ELSE 0,
                              !.waited = @ + dt]
        ELSE turns[t]]

\* time passes while a timer runs (times are kept as durations: the model has
\* no absolute clock)
Tick(dt) ==
    /\ \E t \in DOMAIN turns : turns[t].pc = "wait" /\ turns[t].timer > 0
    /\ turns' = AgeTurns(dt)
    /\ UNCHANGED <<proxy, synthFails, uiVars, inputValue, audios, thread_id, nextThread, startLog,
                   recVars, presses>>

-----------------------------------------------------------------------------
(* Recording: mic toggle, capture sessions, silence detector, finalizer    *)
(*                                                                         *)
(* A session is one call of startRecording, with the stream, the recorder  *)
(* and the closure (silenceStart, checkSilence) it creates:                *)
(*   pc      "gum" (await getUserMedia), "denied" (catch block ran),       *)
(*           "started" (startRecording ran to its end)                     *)
(*   rec     the MediaRecorder: "none", "recording", "stopping" (stop()    *)
(*           called, its events not yet fired), "inactive"                 *)
(*   fin     the onstop handler: "none", "early" (returned: no chunks),    *)
(*           "transcribing" (await sendAudioForTranscription), "done",     *)
(*           "threw" (mediaStream was null)                                *)
(*   live    the tracks of the stream are live                             *)
(*   silence Date.now() - silenceStart, or -1 for silenceStart = null      *)
(*   raf     a requestAnimationFrame(checkSilence) callback is pending     *)
(* and, as history: stops (calls of stop() on the recorder), bySilence     *)
(* (its detector called stopRecording), quiet (the elapsed time of the     *)
(* run of silent frames at the last frame while the recorder recorded, or  *)
(* -1), longQuiet (such a run has reached maxSilence), reset (a loud       *)
(* frame has unset a silenceStart that was set), answer (what the          *)
(* transcribe request of the session ended with).                          *)

maxSilence == 2000

\* analyser buffers (the page's hold 256 samples): silence, a level just
\* under the threshold (volume 4.69), one just over it (5.47), and a mix
Buffers == {<<128, 128>>, <<134, 134>>, <<135, 135>>, <<128, 135>>, <<128, 255>>}
FrameGaps == {1000, 2000}
TranscriptTexts == {<<>>, <<"a">>}
VoiceTexts == {<<>>, <<"a">>, <<" ">>}     \* ... and a text of white space

RECURSIVE SumSq(_)
\* the sum of (v - 128)^2 over the buffer
SumSq(data) ==
    IF data = <<>> THEN 0
    ELSE (Head(data) - 128) * (Head(data) - 128) + SumSq(Tail(data))

\* volume < 5, where volume = 100 * sqrt(sum(((v - 128) / 128)^2) / length):
\* both sides squared and multiplied by 128^2 * length
IsSilent(data) == 100 * 100 * SumSq(data) < 5 * 5 * 128 * 128 * Len(data)

R == [isRecording |-> isRecording, hasStopped |-> hasStopped,
      mediaRecorder |-> mediaRecorder, mediaStream |-> mediaStream,
      chunks |-> chunks, micLabel |-> micLabel, sess |-> sess,
      stopRepeats |-> stopRepeats,
      transcriptionInProgress |-> transcriptionInProgress]

SetRec(r) ==
    /\ isRecording' = r.isRecording
    /\ hasStopped' = r.hasStopped
    /\ mediaRecorder' = r.mediaRecorder
    /\ mediaStream' = r.mediaStream
    /\ chunks' = r.chunks
    /\ micLabel' = r.micLabel
    /\ sess' = r.sess
    /\ stopRepeats' = r.stopRepeats
    /\ transcriptionInProgress' = r.transcriptionInProgress

NewSess ==
    [pc |-> "gum", rec |-> "none", fin |-> "none", live |-> FALSE,
     silence |-> -1, raf |-> FALSE, stops |-> 0, bySilence |-> FALSE,
     quiet |-> -1, longQuiet |-> FALSE, reset |-> FALSE,
     answer |-> [kind |-> "none", text |-> <<>>]]

\* MediaRecorder.stop() on the recorder of session s
RecorderStopCall(r, s) ==
    [r EXCEPT !.sess[s].stops = @ + 1,
              !.sess[s].rec = IF @ = "recording" THEN "stopping" ELSE @]

\* a slip: no `if (hasStopped) return`
stopRecording_unguarded(r) ==
    LET r1 == [r EXCEPT !.hasStopped = TRUE,
                        !.stopRepeats = IF r.hasStopped THEN @ + 1 ELSE @]
        r2 == IF r.isRecording /\ r.mediaRecorder # 0
              THEN RecorderStopCall(r1, r.mediaRecorder) ELSE r1
    IN  [r2 EXCEPT !.isRecording = FALSE, !.micLabel = "idle"]

stopRecording(r) ==
    IF r.hasStopped THEN [r EXCEPT !.stopRepeats = @ + 1]
    ELSE LET r1 == [r EXCEPT !.hasStopped = TRUE]
             r2 == IF r.isRecording /\ r.mediaRecorder # 0
                   THEN RecorderStopCall(r1, r.mediaRecorder) ELSE r1
         IN  [r2 EXCEPT !.isRecording = FALSE, !.micLabel = "idle"]

\* a slip: a loud frame leaves silenceStart as it is
checkSilence_noReset(r, s, data) ==
    LET r0 == [r EXCEPT !.sess[s].raf = FALSE]
    IN  IF r.hasStopped \/ ~r.isRecording THEN r0
        ELSE IF IsSilent(data)
             THEN IF r.sess[s].silence = -1
                  THEN [r0 EXCEPT !.sess[s].silence = 0, !.sess[s].raf = TRUE]
                  ELSE IF r.sess[s].silence > maxSilence
                       THEN stopRecording([r0 EXCEPT !.sess[s].bySilence = TRUE])
                       ELSE [r0 EXCEPT !.sess[s].raf = TRUE]
             ELSE [r0 EXCEPT !.sess[s].raf = TRUE]

\* checkSilence of session s, on the analyser data of this frame
checkSilence(r, s, data) ==
    LET r0 == [r EXCEPT !.sess[s].raf = FALSE]
    IN  IF r.hasStopped \/ ~r.isRecording THEN r0
        ELSE IF IsSilent(data)
             THEN IF r.sess[s].silence = -1
                  THEN [r0 EXCEPT !.sess[s].silence = 0, !.sess[s].raf = TRUE]
                  ELSE IF r.sess[s].silence > maxSilence
                       THEN stopRecording([r0 EXCEPT !.sess[s].bySilence = TRUE])
                       ELSE [r0 EXCEPT !.sess[s].raf = TRUE]
             ELSE [r0 EXCEPT !.sess[s].silence = -1, !.sess[s].raf = TRUE,
                             !.sess[s].reset = @ \/ r.sess[s].silence # -1]

\* startRecording up to `await getUserMedia`
startRecording(r) == [r EXCEPT !.hasStopped = FALSE, !.sess = Append(@, NewSess)]

\* the mic button is clicked: the handler up to `await unlockAutoplay()`
MicClick ==
    /\ presses.mic < MaxClicks
    /\ Press("mic")
    /\ micClicks' = micClicks + 1
    /\ SetUI(unlockSpeech(UI))
    /\ UNCHANGED <<proxy, synthFails, inputValue, audios, chatVars, isRecording, hasStopped,
                   mediaRecorder, mediaStream, chunks, micLabel, sess, stopRepeats,
                   transcriptionInProgress>>

\* a mic click handler goes on after unlockAutoplay: the toggle, with at
\* most max calls of startRecording
MicToggle(max) ==
    /\ micClicks > 0
    /\ micClicks' = micClicks - 1
    /\ IF ~isRecording
       THEN /\ Len(sess) < max
            /\ SetRec(startRecording(R))
       ELSE SetRec(stopRecording(R))
    /\ UNCHANGED <<proxy, synthFails, uiVars, inputValue, audios, chatVars, presses>>

MicResume == MicToggle(MaxSess)

\* getUserMedia resolves: startRecording runs to its end
GumGranted(s, data) ==
    /\ sess[s].pc = "gum"
    /\ LET r1 == [R EXCEPT !.mediaStream = s, !.mediaRecorder = s, !.chunks = 0,
                           !.sess[s].live = TRUE, !.sess[s].pc = "started"]
           r2 == checkSilence(r1, s, data)
       IN  SetRec([r2 EXCEPT !.sess[r2.mediaRecorder].rec = "recording",
                             !.isRecording = TRUE,
                             !.micLabel = "stop"])
    /\ UNCHANGED <<proxy, synthFails, uiVars, inputValue, audios, chatVars, micClicks, presses>>

\* getUserMedia rejects: the catch block of startRecording
GumDenied(s) ==
    /\ sess[s].pc = "gum"
    /\ sess' = [sess EXCEPT ![s].pc = "denied"]
    /\ SetUI(createBubble(UI, MicErrorText, "bot", TRUE))
    /\ UNCHANGED <<proxy, synthFails, inputValue, audios, chatVars, isRecording, hasStopped,
                   mediaRecorder, mediaStream, chunks, micLabel, micClicks,
                   stopRepeats, transcriptionInProgress, presses>>

\* dt ms later, for the sessions whose detector is scheduled and, as history,
\* for the recorders recording: the frame is silent or not
AgeSess(ss, dt, silent) ==
    [s \in DOMAIN ss |->
        [ss[s] EXCEPT
            !.silence = IF ss[s].raf /\ @ # -1 THEN @ + dt ELSE @,
            !.quiet = IF ss[s].rec # "recording" THEN @
                      ELSE IF ~silent THEN -1
                      ELSE IF @ = -1 THEN 0 ELSE @ + dt,
            !.longQuiet = \/ @
                          \/ /\ ss[s].rec = "recording" /\ silent
                             /\ ss[s].quiet # -1
                             /\ ss[s].quiet + dt >= maxSilence]]

RECURSIVE RunCallbacks(_, _, _, _)
\* the animation-frame callbacks pending at the start of the frame, in the
\* order of their sessions
RunCallbacks(r, s, pending, data) ==
    IF s > Len(r.sess) THEN r
    ELSE RunCallbacks(IF s \in pending THEN checkSilence(r, s, data) ELSE r,
                      s + 1, pending, data)

\* an animation frame, dt ms after the last one, with the microphone signal
\* in data
Frame(dt, data) ==
    /\ presses.frame < MaxFrames
    /\ \E s \in DOMAIN sess : sess[s].rec = "recording" \/ sess[s].raf
    /\ Press("frame")
    /\ LET aged == [R EXCEPT !.sess = AgeSess(sess, dt, IsSilent(data))]
       IN  SetRec(RunCallbacks(aged, 1, {s \in DOMAIN sess : sess[s].raf}, data))
    /\ UNCHANGED <<proxy, synthFails, uiVars, inputValue, audios, chatVars, micClicks>>

\* what is left of the onstop handler after sendAudioForTranscription:
\*   mediaStream.getTracks().forEach(t => t.stop()); mediaStream = null
ReleaseStream(r, s) ==
    IF r.mediaStream = 0 THEN [r EXCEPT !.sess[s].fin = "threw"]
    ELSE [r EXCEPT !.sess[r.mediaStream].live = FALSE,
                   !.mediaStream = 0,
                   !.sess[s].fin = "done"]

\* the recorder of session s fires dataavailable (with data or empty) and
\* stop: ondataavailable, then onstop up to its await
RecorderStopped(s, hasData) ==
    /\ sess[s].rec = "stopping"
    /\ LET n == IF hasData THEN chunks + 1 ELSE chunks
       IN  /\ chunks' = n
           /\ sess' = [sess EXCEPT ![s].rec = "inactive",
                                   ![s].fin = IF n = 0 THEN "early" ELSE "transcribing"]
    /\ UNCHANGED <<proxy, synthFails, uiVars, inputValue, audios, chatVars, isRecording, hasStopped,
                   mediaRecorder, mediaStream, micLabel, micClicks, stopRepeats,
                   transcriptionInProgress, presses>>

\* a slip: no `if (!text)`
TranscriptOutcome_noEmptyCheck(kind, text) ==
    IF kind = "network" THEN "went_wrong"
    ELSE IF kind = "http_error" THEN "couldnt"
    ELSE "submit"

\* a slip: no `if (!res.ok)`; the body of an error answer has no text
TranscriptOutcome_noStatusCheck(kind, text) ==
    IF kind = "network" THEN "went_wrong"
    ELSE IF kind = "http_error" \/ text = <<>> THEN "didnt_catch"
    ELSE "submit"

\* a slip: `if (text)` for `if (!text)`
TranscriptOutcome_inverted(kind, text) ==
    IF kind = "network" THEN "went_wrong"
    ELSE IF kind = "http_error" THEN "couldnt"
    ELSE IF text # <<>> THEN "didnt_catch"
    ELSE "submit"

\* the branch sendAudioForTranscription takes on the answer: the catch block,
\* `if (!res.ok)`, `if (!text)`, or input.value = text; form.requestSubmit()
TranscriptOutcome(kind, text) ==
    IF kind = "network" THEN "went_wrong"
    ELSE IF kind = "http_error" THEN "couldnt"
    ELSE IF text = <<>> THEN "didnt_catch"
    ELSE "submit"

OutcomeText(o) ==
    IF o = "couldnt" THEN CouldntText
    ELSE IF o = "didnt_catch" THEN DidntCatch
    ELSE WentWrongText

\* the transcribe request of session s ends: "http_error", "network" (fetch
\* rejects) or "ok" with the recognized text; then onstop goes on
TranscribeResp(s, kind, text) ==
    /\ sess[s].fin = "transcribing"
    /\ IF TranscriptOutcome(kind, text) = "submit"
       THEN /\ inputValue' = text
            /\ turns' = Append(turns, NewTurn)
            /\ SetUI(SubmitHandler(UI))
       ELSE /\ SetUI(createBubble(UI, OutcomeText(TranscriptOutcome(kind, text)),
                                  "bot", TRUE))
            /\ UNCHANGED <<inputValue, turns>>
    /\ SetRec(ReleaseStream([R EXCEPT !.sess[s].answer =
                                         [kind |-> kind, text |-> text]], s))
    /\ UNCHANGED <<proxy, synthFails, audios, thread_id, nextThread, startLog, micClicks, presses>>

-----------------------------------------------------------------------------
(* The dual-voice variant (src/unnamed/part_000): speech output            *)
(*                                                                         *)
(* Every bot bubble, the thinking indicator included, is spoken through    *)
(* speak -> speakServer, and the replay control calls speak again.  The    *)
(* handlers unlock nothing.  An entry of utt is here a record with         *)
(*   kind  "server" (a function of speakServer) or "browser" (a function   *)
(*         of speakBrowser)                                                *)
(*   st    "queued", "fetch" (await fetch tts), "audio" (the Audio element *)
(*         exists and play() was called), "synth", "settling", "done"      *)
(*         (resolve was called)                                            *)
(*   au    the Audio element: "none", "loading" (the promise of play() is  *)
(*         pending), "playing", "ended", "error", "blocked" (play()        *)
(*         rejected without an error event)                                *)
(*   of    of a "browser" entry: the "server" entry it is the fallback of  *)
(* The token "[m]" is a malformed citation "[Source: a]] [[1:1]" in the     *)
(* form repairInlineCitations looks for.                                   *)

MalformedReply == <<"h", "[m]">>

RECURSIVE repairInlineCitations(_)
\* repairInlineCitations: a malformed citation becomes the marker
\* [num:num+label+lines]
repairInlineCitations(s) ==
    IF s = <<>> THEN <<>>
    ELSE (IF Head(s) = "[m]"
          THEN <<"[", "1", ":", "1", "+", "a", "+", "l", "]">>
          ELSE <<Head(s)>>) \o repairInlineCitations(Tail(s))

\* the function at position i of the chain runs up to its first await
RunFn_p0(ui, i) ==
    IF ui.utt[i].kind = "server"
    THEN [ui EXCEPT !.utt[i].st = "fetch", !.ttsRequests = @ + 1]
    ELSE LET c == SynthCancel(ui)
         IN  SynthSpeak([c EXCEPT !.utt[i].st = "synth"], i)

Pump_p0(ui) ==
    LET q == {i \in DOMAIN ui.utt : ui.utt[i].st = "queued"}
    IN  IF q = {} THEN ui
        ELSE IF \A j \in 1..(Min(q) - 1) : ui.utt[j].st = "done"
             THEN RunFn_p0(ui, Min(q))
             ELSE ui

enqueueSpeech_p0(ui, u) == Pump_p0([ui EXCEPT !.utt = Append(@, u)])

\* resolve() of entry i; resolving a settled promise does nothing
Resolve_p0(ui, i) ==
    IF ui.utt[i].st = "done" THEN ui
    ELSE Pump_p0([ui EXCEPT !.utt[i].st = "done"])

\* speakBrowser(text), called as the fallback of entry `of`
speakBrowser_p0(ui, b, of) ==
    enqueueSpeech_p0(ui, [kind |-> "browser", st |-> "queued", bubble |-> b,
                          of |-> of, au |-> "none"])

speakServer(ui, b) ==
    enqueueSpeech_p0(ui, [kind |-> "server", st |-> "queued", bubble |-> b,
                          of |-> 0, au |-> "none"])

\* speak(text), with useServerTTS = true
speak(ui, b) == speakServer(ui, b)

\* the fallback of speakServer's handlers: speakBrowser(text); resolve()
Fallback(ui, i) == Resolve_p0(speakBrowser_p0(ui, ui.utt[i].bubble, i), i)

createBubble_p0(ui, content, sender) ==
    LET b == Len(ui.bubbles) + 1
        cleaned == stripCitations(content)
        repaired == repairInlineCitations(cleaned)
    IN  IF sender = "bot"
        THEN speak([ui EXCEPT !.bubbles = Append(@,
                        [sender |-> "bot", text |-> repaired,
                         narrate |-> TRUE, attached |-> TRUE,
                         tts |-> "none"])], b)
        ELSE [ui EXCEPT !.bubbles = Append(@,
                        [sender |-> "user", text |-> content,
                         narrate |-> FALSE, attached |-> TRUE,
                         tts |-> "none"])]

showSpinner_p0(ui) == createBubble_p0(ui, SpinnerText, "bot")

\* the tts endpoint answers the request of entry i: with audio, or not (the
\* fetch rejects, the status is not a success, the body is not JSON)
TtsResp_p0(i, ok) ==
    /\ utt[i].kind = "server" /\ utt[i].st = "fetch"
    /\ SetUI(IF ok THEN [UI EXCEPT !.utt[i].st = "audio", !.utt[i].au = "loading"]
             ELSE Fallback(UI, i))
    /\ UNCHANGED <<proxy, synthFails, inputValue, audios, chatVars, recVars, presses>>

\* the promise of audio.play() is fulfilled: playback has started
AudioStarts(i) ==
    /\ utt[i].au = "loading"
    /\ utt' = [utt EXCEPT ![i].au = "playing"]
    /\ UNCHANGED <<proxy, synthFails, bubbles, synthQ, synthSpeaking, ttsRequests, inputValue, audios, chatVars,
                   recVars, presses>>

\* play() rejects and no error event is fired (autoplay is blocked)
PlayRejected(i) ==
    /\ utt[i].au = "loading"
    /\ SetUI(Fallback([UI EXCEPT !.utt[i].au = "blocked"], i))
    /\ UNCHANGED <<proxy, synthFails, inputValue, audios, chatVars, recVars, presses>>

\* the audio cannot be loaded or decoded: the error event is fired and, in
\* the same task, a pending promise of play() is rejected
AudioError(i) ==
    /\ utt[i].au \in {"loading", "playing"}
    /\ LET onerror == Fallback([UI EXCEPT !.utt[i].au = "error"], i)
       IN  SetUI(IF utt[i].au = "loading" THEN Fallback(onerror, i) ELSE onerror)
    /\ UNCHANGED <<proxy, synthFails, inputValue, audios, chatVars, recVars, presses>>

\* the audio plays to its end: onended
AudioEnded(i) ==
    /\ utt[i].au = "playing"
    /\ SetUI(Resolve_p0([UI EXCEPT !.utt[i].au = "ended"], i))
    /\ UNCHANGED <<proxy, synthFails, inputValue, audios, chatVars, recVars, presses>>

SynthEnd_p0 ==
    /\ synthQ # <<>> /\ synthSpeaking
    /\ SetUI(Resolve_p0([UI EXCEPT !.synthQ = Tail(@), !.speaking = FALSE], Head(synthQ)))
    /\ UNCHANGED <<proxy, synthFails, inputValue, audios, chatVars, recVars, presses>>

SynthError_p0 ==
    /\ synthQ # <<>>
    /\ SetUI(Resolve_p0([UI EXCEPT !.synthQ = Tail(@), !.speaking = FALSE], Head(synthQ)))
    /\ UNCHANGED <<proxy, synthFails, inputValue, audios, chatVars, recVars, presses>>

\* replayBtn.onclick of bubble b: speak(cleaned)
Replay_p0(b) ==
    /\ presses.replay < MaxReplay
    /\ bubbles[b].sender = "bot"
    /\ Press("replay")
    /\ SetUI(speak(UI, b))
    /\ UNCHANGED <<proxy, synthFails, inputValue, audios, chatVars, recVars>>

(* The variant's submit handler                                            *)

\* the submit handler up to `await fetch(start-run)`; with an empty message
\* it returns at once
SubmitHandler_p0(ui, ts, log, iv) ==
    LET message == Trim(iv)
        ui2 == showSpinner_p0(createBubble_p0(ui, message, "user"))
    IN  IF message = <<>>
        THEN [ui |-> ui, turns |-> ts, startLog |-> log, inputValue |-> iv]
        ELSE [ui |-> ui2,
              turns |-> Append(ts, [NewTurn EXCEPT !.pc = "start",
                                                   !.msg = message,
                                                   !.spinner = Len(ui2.bubbles),
                                                   !.reqTid = thread_id]),
              startLog |-> Append(log, <<"req", thread_id>>),
              inputValue |-> <<>>]

\* the form is submitted with a message in the input
Submit_p0(max) ==
    /\ Len(turns) < max
    /\ Trim(inputValue) # <<>>
    /\ LET h == SubmitHandler_p0(UI, turns, startLog, inputValue)
       IN  /\ SetUI(h.ui)
           /\ turns' = h.turns
           /\ startLog' = h.startLog
           /\ inputValue' = h.inputValue
    /\ UNCHANGED <<proxy, synthFails, audios, thread_id, nextThread, recVars, presses>>

TurnFailed_p0(ui, t) ==
    createBubble_p0(RemoveBubble(ui, turns[t].spinner), ApologyText, "bot")

StartRunResp_p0(t, kind) ==
    /\ turns[t].pc = "start"
    /\ IF kind = "network"
       THEN /\ SetUI(TurnFailed_p0(UI, t))
            /\ turns' = [turns EXCEPT ![t].pc = "failed", ![t].startSt = kind]
            /\ UNCHANGED <<thread_id, nextThread, startLog>>
       ELSE /\ thread_id' = AdoptThread(kind, t)
            /\ nextThread' = IF kind = "ok" /\ turns[t].reqTid \notin ThreadIds
                             THEN nextThread + 1 ELSE nextThread
            /\ startLog' = IF kind = "ok"
                           THEN Append(startLog, <<"resp", ServiceThread(turns[t].reqTid)>>)
                           ELSE startLog
            /\ turns' = [turns EXCEPT ![t].pc = "poll",
                                      ![t].startSt = kind,
                                      ![t].run = IF kind = "ok" THEN t ELSE 0,
                                      ![t].checks = 1,
                                      ![t].checkTid = thread_id',
                                      ![t].afterFail = IF kind = "ok" THEN 0 ELSE 1,
                                      ![t].thread =
                                          IF kind = "ok"
                                          THEN ServiceThread(turns[t].reqTid)
                                          ELSE NULL]
            /\ UNCHANGED uiVars
    /\ UNCHANGED <<proxy, synthFails, inputValue, audios, recVars, presses>>

CheckRunResp_p0(t, kind, r) ==
    /\ turns[t].pc = "poll"
    /\ \/ /\ kind = "202"
          /\ turns[t].n202 < MaxPolls
          /\ turns' = [turns EXCEPT ![t].pc = "wait",
                                    ![t].n202 = @ + 1,
                                    ![t].timer = PollDelay,
                                    ![t].waited = 0]
          /\ UNCHANGED uiVars
       \/ /\ kind = "ok"
          /\ turns' = [turns EXCEPT ![t].pc = "done", ![t].reply = r,
                                    ![t].replyBubble = Len(bubbles) + 1]
          /\ SetUI(createBubble_p0(RemoveBubble(UI, turns[t].spinner),
                                   ReplyOrPlaceholder(r), "bot"))
       \/ /\ kind = "error"
          /\ turns' = [turns EXCEPT ![t].pc = "failed"]
          /\ SetUI(TurnFailed_p0(UI, t))
    /\ UNCHANGED <<proxy, synthFails, inputValue, audios, thread_id, nextThread, startLog,
                   recVars, presses>>

(* The variant's recording pipeline, with the transcription guard.  A      *)
(* session has, besides the fields above, onstop: its recorder still has   *)
(* its onstop handler; fin may also be "unhandled" (stopped with onstop    *)
(* null), "reading" (await blob.arrayBuffer()) and "skipped"               *)
(* (sendAudioForTranscription returned at its guard).                      *)

NewSess_p0 == NewSess @@ [onstop |-> TRUE]

startRecording_p0(r) ==
    [r EXCEPT !.hasStopped = FALSE,
              !.transcriptionInProgress = FALSE,
              !.sess = Append(@, NewSess_p0)]

\* checkSilence of session s: no guard on entry; it reschedules itself only
\* while isRecording
checkSilence_p0(r, s, data) ==
    LET r0 == [r EXCEPT !.sess[s].raf = FALSE]
        again == [r0 EXCEPT !.sess[s].raf = r.isRecording]
    IN  IF IsSilent(data)
        THEN IF r.sess[s].silence = -1
             THEN [again EXCEPT !.sess[s].silence = 0]
             ELSE IF r.sess[s].silence > maxSilence
                  THEN stopRecording([r0 EXCEPT !.sess[s].bySilence = TRUE])
                  ELSE again
        ELSE [again EXCEPT !.sess[s].silence = -1,
                           !.sess[s].reset = @ \/ r.sess[s].silence # -1]

\* micBtn click: the toggle, with no await before it
MicClick_p0 ==
    /\ presses.mic < MaxClicks
    /\ Press("mic")
    /\ IF ~isRecording
       THEN /\ Len(sess) < MaxSess
            /\ SetRec(startRecording_p0(R))
       ELSE SetRec(stopRecording(R))
    /\ UNCHANGED <<proxy, synthFails, uiVars, inputValue, audios, chatVars, micClicks>>

GumGranted_p0(s, data) ==
    /\ sess[s].pc = "gum"
    /\ LET r1 == [R EXCEPT !.mediaStream = s, !.mediaRecorder = s, !.chunks = 0,
                           !.sess[s].live = TRUE, !.sess[s].pc = "started"]
           r2 == checkSilence_p0(r1, s, data)
       IN  SetRec([r2 EXCEPT !.sess[r2.mediaRecorder].rec = "recording",
                             !.isRecording = TRUE,
                             !.micLabel = "stop"])
    /\ UNCHANGED <<proxy, synthFails, uiVars, inputValue, audios, chatVars, micClicks, presses>>

GumDenied_p0(s) ==
    /\ sess[s].pc = "gum"
    /\ sess' = [sess EXCEPT ![s].pc = "denied"]
    /\ SetUI(createBubble_p0(UI, MicErrorText, "bot"))
    /\ UNCHANGED <<proxy, synthFails, inputValue, audios, chatVars, isRecording, hasStopped,
                   mediaRecorder, mediaStream, chunks, micLabel, micClicks,
                   stopRepeats, transcriptionInProgress, presses>>

RECURSIVE RunCallbacks_p0(_, _, _, _)
RunCallbacks_p0(r, s, pending, data) ==
    IF s > Len(r.sess) THEN r
    ELSE RunCallbacks_p0(IF s \in pending THEN checkSilence_p0(r, s, data) ELSE r,
                         s + 1, pending, data)

Frame_p0(dt, data) ==
    /\ presses.frame < MaxFrames
    /\ \E s \in DOMAIN sess : sess[s].rec = "recording" \/ sess[s].raf
    /\ Press("frame")
    /\ LET aged == [R EXCEPT !.sess = AgeSess(sess, dt, IsSilent(data))]
       IN  SetRec(RunCallbacks_p0(aged, 1, {s \in DOMAIN sess : sess[s].raf}, data))
    /\ UNCHANGED <<proxy, synthFails, uiVars, inputValue, audios, chatVars, micClicks>>

\* the recorder of session s fires dataavailable and stop.  onstop clears the
\* handler of the recorder `mediaRecorder` names now, returns when there are
\* no chunks, and calls sendAudioForTranscription, which returns at its
\* guard (and onstop releases the stream) or sets the flag and reads the blob
RecorderStopped_p0(s, hasData) ==
    /\ sess[s].rec = "stopping"
    /\ LET n == IF hasData THEN chunks + 1 ELSE chunks
           r1 == [R EXCEPT !.chunks = n, !.sess[s].rec = "inactive"]
           r2 == [r1 EXCEPT !.sess[r1.mediaRecorder].onstop = FALSE]
       IN  SetRec(IF ~sess[s].onstop THEN [r1 EXCEPT !.sess[s].fin = "unhandled"]
                  ELSE IF n = 0 THEN [r2 EXCEPT !.sess[s].fin = "early"]
                  ELSE IF transcriptionInProgress
                       THEN LET r3 == ReleaseStream(r2, s)
                            IN  [r3 EXCEPT !.sess[s].fin =
                                     IF @ = "done" THEN "skipped" ELSE @]
                       ELSE [r2 EXCEPT !.transcriptionInProgress = TRUE,
                                       !.sess[s].fin = "reading"])
    /\ UNCHANGED <<proxy, synthFails, uiVars, inputValue, audios, chatVars, micClicks, presses>>

\* blob.arrayBuffer() resolves: the transcribe request is sent
BlobRead_p0(s) ==
    /\ sess[s].fin = "reading"
    /\ sess' = [sess EXCEPT ![s].fin = "transcribing"]
    /\ UNCHANGED <<proxy, synthFails, uiVars, inputValue, audios, chatVars, isRecording, hasStopped,
                   mediaRecorder, mediaStream, chunks, micLabel, micClicks,
                   stopRepeats, transcriptionInProgress, presses>>

\* the transcribe request of session s ends; the finally block clears the
\* flag, then onstop releases the stream
TranscribeResp_p0(s, kind, text) ==
    /\ sess[s].fin = "transcribing"
    /\ IF TranscriptOutcome(kind, text) = "submit"
       THEN LET h == SubmitHandler_p0(UI, turns, startLog, text)
            IN  /\ SetUI(h.ui)
                /\ turns' = h.turns
                /\ startLog' = h.startLog
                /\ inputValue' = h.inputValue
       ELSE /\ SetUI(createBubble_p0(UI, OutcomeText(TranscriptOutcome(kind, text)),
                                     "bot"))
            /\ UNCHANGED <<inputValue, turns, startLog>>
    /\ SetRec(ReleaseStream([R EXCEPT !.transcriptionInProgress = FALSE,
                                      !.sess[s].answer =
                                          [kind |-> kind, text |-> text]], s))
    /\ UNCHANGED <<proxy, synthFails, audios, thread_id, nextThread, micClicks, presses>>

-----------------------------------------------------------------------------
(* Specifications                                                          *)

Init ==
    /\ bubbles = <<>>
    /\ inputValue = <<>>
    /\ utt = <<>>
    /\ synthQ = <<>>
    /\ synthSpeaking = FALSE
    /\ audios = <<>>
    /\ ttsRequests = 0
    /\ thread_id = NULL
    /\ turns = <<>>
    /\ nextThread = 0
    /\ startLog = <<>>
    /\ isRecording = FALSE
    /\ hasStopped = FALSE
    /\ mediaRecorder = 0
    /\ mediaStream = 0
    /\ chunks = 0
    /\ micLabel = "idle"
    /\ micClicks = 0
    /\ sess = <<>>
    /\ stopRepeats = 0
    /\ transcriptionInProgress = FALSE
    /\ presses = [stop |-> 0, replay |-> 0, mic |-> 0, frame |-> 0]
    /\ proxy = [pc |-> "idle"]
    /\ synthFails = FALSE

\* the turns and the thread: the user types and submits, the service answers
\* each request once
NextThread ==
    \/ \E v \in InputTexts : Type(v)
    \/ Submit(MaxTurns)
    \/ \E t \in DOMAIN turns : SubmitResume(t)
    \/ \E t \in DOMAIN turns, kind \in {"ok", "http_error", "network"} : StartRunResp(t, kind)
    \/ \E t \in DOMAIN turns : CheckRunResp(t, "error", NoReply)
    \/ \E t \in DOMAIN turns : CheckRunResp(t, "ok", CitedReply)

SpecThread == Init /\ [][NextThread]_vars

\* the poll loop: the service may answer 202, and time passes
NextChat ==
    \/ \E v \in InputTexts : Type(v)
    \/ Submit(MaxPollTurns)
    \/ \E t \in DOMAIN turns : SubmitResume(t)
    \/ \E t \in DOMAIN turns, kind \in {"ok", "http_error", "network"} : StartRunResp(t, kind)
    \/ \E t \in DOMAIN turns, kind \in {"202", "error"} : CheckRunResp(t, kind, NoReply)
    \/ \E t \in DOMAIN turns, r \in Replies \cup {NoReply} : CheckRunResp(t, "ok", r)
    \/ \E t \in DOMAIN turns : TimerFire(t)
    \/ \E dt \in TimeSteps : Tick(dt)

SpecChat == Init /\ [][NextChat]_vars

\* overlapping turns: further messages are sent while the first turn is
\* polled; the service lets the first run wait
NextOverlap ==
    \/ Type(<<" ", "a">>)
    \/ Submit(MaxOverlapTurns)
    \/ \E t \in DOMAIN turns : SubmitResume(t)
    \/ \E t \in DOMAIN turns : StartRunResp(t, "ok")
    \/ \E t \in DOMAIN turns : t = 1 /\ CheckRunResp(t, "202", NoReply)
    \/ \E t \in DOMAIN turns : CheckRunResp(t, "ok", CitedReply)
    \/ \E t \in DOMAIN turns : TimerFire(t)
    \/ Tick(PollDelay)

SpecOverlap == Init /\ [][NextOverlap]_vars

\* speech output: one turn brings a reply, the user replays bubbles and
\* presses Stop Talking, the synthesizer and the audio elements play
NextSpeech ==
    \/ Type(<<" ", "a">>)
    \/ Submit(MaxPollTurns)
    \/ \E t \in DOMAIN turns : SubmitResume(t)
    \/ \E t \in DOMAIN turns : StartRunResp(t, "ok")
    \/ \E t \in DOMAIN turns : CheckRunResp(t, "ok", CitedReply)
    \/ SynthStart
    \/ SynthEnd
    \/ SynthError
    \/ \E i \in DOMAIN utt : SettleCancelled(i)
    \/ StopTalk
    \/ \E b \in DOMAIN bubbles : Replay(b)

SpecSpeech == Init /\ [][NextSpeech]_vars

\* the speech queue with a synthesizer that may refuse calls: the user sends
\* one message, the turn fails (its apology is narrated) and the user
\* replays bubbles
NextQueue ==
    \/ turns = <<>> /\ Type(<<" ", "a">>)
    \/ turns = <<>> /\ inputValue # <<>> /\ Submit(MaxPollTurns)
    \/ \E t \in DOMAIN turns : SubmitResume(t)
    \/ \E t \in DOMAIN turns : StartRunResp(t, "network")
    \/ \E b \in DOMAIN bubbles : Replay(b)
    \/ SynthBreak
    \/ SynthStart
    \/ SynthEnd
    \/ SynthError

\* The synthesizer starts the utterance at the head of its queue and an
\* utterance being spoken ends (unless it errors first): every utterance
\* handed to the synthesizer ends or errors.
QueueFairness ==
    /\ WF_vars(SynthStart)
    /\ WF_vars(SynthEnd)

SpecQueueLive == Init /\ [][NextQueue]_vars /\ QueueFairness

\* speech output and replayed audio: the tts endpoint answers, and the audio
\* elements of the replay control play
NextReplay ==
    \/ NextSpeech
    \/ \E b \in DOMAIN bubbles, ok \in BOOLEAN : TtsResp(b, ok)
    \/ \E a \in DOMAIN audios : AudioPlay(a)
    \/ \E a \in DOMAIN audios : AudioReject(a)
    \/ \E a \in DOMAIN audios : AudioEnd(a)

SpecReplay == Init /\ [][NextReplay]_vars

\* the audio cache of the bubbles: a turn brings bot bubbles, the tts
\* endpoint answers sooner or later, the user replays bubbles, and play() of
\* a cached audio may reject
NextCache ==
    \/ Type(<<" ", "a">>)
    \/ Submit(MaxPollTurns)
    \/ \E t \in DOMAIN turns : SubmitResume(t)
    \/ \E t \in DOMAIN turns : StartRunResp(t, "ok")
    \/ \E t \in DOMAIN turns : CheckRunResp(t, "ok", CitedReply)
    \/ \E b \in DOMAIN bubbles : TtsResp(b, TRUE)
    \/ \E b \in DOMAIN bubbles : Replay(b)
    \/ \E a \in DOMAIN audios : AudioReject(a)

SpecCache == Init /\ [][NextCache]_vars

\* a submit handler runs or a tts request is pending, or the recording
\* pipeline is at work
TurnBusy ==
    \/ \E t \in DOMAIN turns : turns[t].pc \in {"unlock", "start", "poll", "wait"}
    \/ \E b \in DOMAIN bubbles : bubbles[b].tts = "pending"
RecBusy ==
    \/ micClicks > 0
    \/ \E s \in DOMAIN sess :
          \/ sess[s].pc = "gum"
          \/ sess[s].rec \in {"recording", "stopping"}
          \/ sess[s].fin = "transcribing"

\* failures of every kind: the microphone is denied, the transcription, the
\* conversation and the synthesis fail, and the user goes on typing and
\* submitting.  This user does one thing at a time: the mic button is used
\* and the form is submitted only while no turn and no tts request is in
\* flight, the mic button only when the browser has answered the last
\* request for the microphone, and the form only while nothing is being
\* recorded or transcribed
NextFail ==
    \/ ~TurnBusy /\ micClicks = 0 /\ (\A s \in DOMAIN sess : sess[s].pc # "gum") /\ MicClick
    \/ MicResume
    \/ \E s \in DOMAIN sess : GumGranted(s, <<128, 255>>)
    \/ \E s \in DOMAIN sess : GumDenied(s)
    \/ \E s \in DOMAIN sess : RecorderStopped(s, TRUE)
    \/ \E s \in DOMAIN sess, kind \in {"http_error", "network"} : TranscribeResp(s, kind, <<>>)
    \/ ~TurnBusy /\ ~RecBusy /\ Type(<<" ", "a">>)
    \/ ~TurnBusy /\ ~RecBusy /\ inputValue # <<>> /\ Submit(MaxRetryTurns)
    \/ \E t \in DOMAIN turns : SubmitResume(t)
    \/ \E t \in DOMAIN turns, kind \in {"ok", "http_error", "network"} : StartRunResp(t, kind)
    \/ \E t \in DOMAIN turns : CheckRunResp(t, "error", NoReply)
    \/ \E b \in DOMAIN bubbles : TtsResp(b, FALSE)

SpecFail == Init /\ [][NextFail]_vars

\* recording: the user clicks the mic button, the browser grants or denies
\* the microphone, frames pass, the recorder stops, the service transcribes
NextRec ==
    \/ MicClick
    \/ MicResume
    \/ \E s \in DOMAIN sess, data \in Buffers : GumGranted(s, data)
    \/ \E s \in DOMAIN sess : GumDenied(s)
    \/ \E dt \in FrameGaps, data \in Buffers : Frame(dt, data)
    \/ \E s \in DOMAIN sess, hasData \in BOOLEAN : RecorderStopped(s, hasData)
    \/ \E s \in DOMAIN sess, kind \in {"http_error", "network"} : TranscribeResp(s, kind, <<>>)
    \/ \E s \in DOMAIN sess, text \in TranscriptTexts : TranscribeResp(s, "ok", text)

SpecRec == Init /\ [][NextRec]_vars

\* the silence detector: mic clicks, permissions granted while the signal is
\* silent or loud, and animation frames
NextDetect ==
    \/ MicClick
    \/ MicResume
    \/ \E s \in DOMAIN sess, data \in {<<128, 128>>, <<128, 255>>} : GumGranted(s, data)
    \/ \E dt \in FrameGaps, data \in Buffers : Frame(dt, data)

SpecDetect == Init /\ [][NextDetect]_vars

\* a recording is stopped and another one started between two animation
\* frames: mic clicks, permissions granted during silence, frames
NextRestart ==
    \/ MicClick
    \/ MicToggle(MaxRestartSess)
    \/ \E s \in DOMAIN sess : GumGranted(s, <<128, 128>>)
    \/ \E data \in {<<128, 128>>, <<128, 255>>} : Frame(2000, data)

SpecRestart == Init /\ [][NextRestart]_vars

\* voice input from the mic click to the turn: the service transcribes, the
\* submit handler sends the message, and the user may edit the input
NextVoice ==
    \/ MicClick
    \/ MicResume
    \/ \E s \in DOMAIN sess : GumGranted(s, <<128, 255>>)
    \/ \E s \in DOMAIN sess : GumDenied(s)
    \/ \E s \in DOMAIN sess, hasData \in BOOLEAN : RecorderStopped(s, hasData)
    \/ \E s \in DOMAIN sess, kind \in {"http_error", "network"} : TranscribeResp(s, kind, <<>>)
    \/ \E s \in DOMAIN sess, text \in VoiceTexts : TranscribeResp(s, "ok", text)
    \/ \E v \in InputTexts : Type(v)
    \/ \E t \in DOMAIN turns : SubmitResume(t)

SpecVoice == Init /\ [][NextVoice]_vars

\* rendering of replies: the texts the service may answer with are built of
\* up to MaxPieces pieces of citation markers
NextRender ==
    \/ Type(<<" ", "a">>)
    \/ Submit(MaxPollTurns)
    \/ \E t \in DOMAIN turns : SubmitResume(t)
    \/ \E t \in DOMAIN turns : StartRunResp(t, "ok")
    \/ \E t \in DOMAIN turns, r \in CitedTexts : CheckRunResp(t, "ok", r)

SpecRender == Init /\ [][NextRender]_vars

\* the variant with the transcription guard (part_000): recording
NextGuard ==
    \/ MicClick_p0
    \/ \E s \in DOMAIN sess, data \in Buffers : GumGranted_p0(s, data)
    \/ \E s \in DOMAIN sess : GumDenied_p0(s)
    \/ \E dt \in FrameGaps, data \in Buffers : Frame_p0(dt, data)
    \/ \E s \in DOMAIN sess, hasData \in BOOLEAN : RecorderStopped_p0(s, hasData)
    \/ \E s \in DOMAIN sess : BlobRead_p0(s)
    \/ \E s \in DOMAIN sess, kind \in {"http_error", "network"} : TranscribeResp_p0(s, kind, <<>>)
    \/ \E s \in DOMAIN sess, text \in TranscriptTexts : TranscribeResp_p0(s, "ok", text)

SpecGuard == Init /\ [][NextGuard]_vars

\* the dual-voice variant (part_000): one turn brings a reply, the user
\* replays bubbles, the tts endpoint answers, audio elements and the
\* synthesizer play or fail
NextDual ==
    \/ Type(<<" ", "a">>)
    \/ Submit_p0(MaxPollTurns)
    \/ \E t \in DOMAIN turns : StartRunResp_p0(t, "ok")
    \/ \E t \in DOMAIN turns : CheckRunResp_p0(t, "error", NoReply)
    \/ \E t \in DOMAIN turns : CheckRunResp_p0(t, "ok", MalformedReply)
    \/ \E b \in DOMAIN bubbles : Replay_p0(b)
    \/ \E i \in DOMAIN utt, ok \in BOOLEAN : TtsResp_p0(i, ok)
    \/ \E i \in DOMAIN utt : AudioStarts(i)
    \/ \E i \in DOMAIN utt : PlayRejected(i)
    \/ \E i \in DOMAIN utt : AudioError(i)
    \/ \E i \in DOMAIN utt : AudioEnded(i)
    \/ SynthStart
    \/ SynthEnd_p0
    \/ SynthError_p0

SpecDual == Init /\ [][NextDual]_vars

-----------------------------------------------------------------------------
(* Claims: speech output                                                   *)

Speaking(i) == synthSpeaking /\ synthQ # <<>> /\ Head(synthQ) = i

\* C1: utterances passed to enqueueSpeech start in arrival order, each only
\* after the one before it has ended or errored (its onend or onerror has
\* run); no two of them are in the synthesizer at the same time.
C1_SpeechFifo ==
    /\ \A j \in DOMAIN utt :
          utt[j].st # "queued" => \A i \in 1..(j - 1) : utt[i].st = "done"
    /\ Cardinality({i \in DOMAIN utt : utt[i].st = "synth"}) <= 1
    /\ \A i \in DOMAIN utt : Speaking(i) => utt[i].st = "synth"

\* the third utterance speaks after the first two have ended or errored
C1_Witness ==
    /\ Len(utt) >= 3
    /\ Speaking(3)
    /\ utt[1].st = "done" /\ utt[2].st = "done"

\* C2: at most one audio output plays at any moment, counting the utterances
\* of the speech queue and the cached audio a replay click starts.
C2_OneAudioOutput ==
    Cardinality({a \in DOMAIN audios : audios[a].st = "playing"})
      + Cardinality({i \in DOMAIN utt : Speaking(i)}) <= 1

\* C28: the speech queue does not get stuck on a failed utterance: when the
\* function of an utterance throws (its promise rejects), the utterances
\* enqueued after it still start; every enqueued utterance eventually starts
\* (its function runs), given that every utterance handed to the synthesizer
\* eventually ends or errors.  An entry never returns to "queued", so this
\* is: again and again no entry is waiting for its turn.
C28_QueueNotStuck ==
    []<>(\A i \in DOMAIN utt : utt[i].st # "queued")

\* the function of the first utterance threw; the second has been spoken
\* and the third is being spoken
C28_Witness ==
    /\ Len(utt) >= 3
    /\ utt[1].threw
    /\ utt[2].st = "done" /\ ~utt[2].threw
    /\ Speaking(3) /\ utt[3].st = "synth"

\* C35: pressing Stop Talking silences speech: an utterance enqueued before
\* a press (stops is the number of presses at the time it was enqueued) is,
\* after the press, not in the synthesizer: it neither is speaking nor has
\* been handed to speak().  (The press empties the synthesizer, so such an
\* utterance in the synthesizer was started after the press.)
C35_StopSilences ==
    \A i \in DOMAIN utt :
        utt[i].stops < presses.stop => utt[i].st # "synth" /\ ~Speaking(i)

Spinners == {turns[t].spinner : t \in {u \in DOMAIN turns : turns[u].spinner # 0}}

\* C29: the thinking indicator is never narrated: no utterance enqueued
\* automatically (by createBubble) belongs to a spinner bubble; each belongs
\* to a bot bubble that is none.
C29_SpinnerNotNarrated ==
    \A i \in DOMAIN utt :
        utt[i].auto =>
            /\ utt[i].bubble \notin Spinners
            /\ bubbles[utt[i].bubble].sender = "bot"
            /\ bubbles[utt[i].bubble].text # stripCitations(SpinnerText)

\* a reply was narrated automatically; the only utterance of the thinking
\* indicator is the one a replay click on it has enqueued
C29_Witness ==
    /\ \E i \in DOMAIN utt : utt[i].auto /\ utt[i].bubble \notin Spinners
    /\ \E i \in DOMAIN utt : ~utt[i].auto /\ utt[i].bubble \in Spinners

-----------------------------------------------------------------------------
(* Claims: conversation                                                    *)

StartReqs == {j \in DOMAIN startLog : startLog[j][1] = "req"}
StartResps == {i \in DOMAIN startLog : startLog[i][1] = "resp"}

\* C5: once a successful start-run response has returned thread T, every
\* start-run request sent afterwards carries thread_id T.
C5_ThreadReused ==
    \A i \in StartResps, j \in StartReqs :
        i < j => startLog[j][2] = startLog[i][2]

\* C6: at most one start-run request carries thread_id null, and every other
\* start-run request carries a thread_id the service returned before.
C6_ThreadCreatedOnce ==
    /\ Cardinality({j \in StartReqs : startLog[j][2] = NULL}) <= 1
    /\ \A j \in StartReqs :
          startLog[j][2] # NULL =>
              \E i \in StartResps : i < j /\ startLog[i][2] = startLog[j][2]

Polling(t) == turns[t].pc \in {"poll", "wait"}

\* C25: a second turn can be submitted while a turn is in flight, so that the
\* poll loops of two turns run at the same time; each successful start-run
\* response writes the thread it carries to thread_id when it arrives (the
\* writes happen in the order of arrival), and nothing else writes thread_id.
C25_WritesInArrivalOrder ==
    [][/\ (startLog' # startLog /\ startLog'[Len(startLog')][1] = "resp") =>
              thread_id' = startLog'[Len(startLog')][2]
       /\ thread_id' # thread_id =>
              \E t \in DOMAIN turns : turns[t].pc = "start" /\ turns'[t].pc = "poll"]_vars

\* the poll loops of both turns are in flight; the response of the second
\* turn arrived first and that of the first turn wrote thread_id last
C25_Witness ==
    /\ Len(turns) >= 2
    /\ Polling(1) /\ Polling(2)
    /\ startLog = <<<<"req", NULL>>, <<"req", NULL>>, <<"resp", "T1">>, <<"resp", "T2">>>>
    /\ turns[2].thread = "T1" /\ turns[1].thread = "T2"
    /\ thread_id = "T2"

\* C30: every check-run request for a run carries the thread_id that the
\* start-run response returned together with the run.
C30_CheckCarriesOwnThread ==
    \A t \in DOMAIN turns :
        (turns[t].startSt = "ok" /\ turns[t].checks > 0) =>
            turns[t].checkTid = turns[t].thread

BotNotices == {b \in DOMAIN bubbles : bubbles[b].sender = "bot" /\ bubbles[b].narrate}

PollLoopDone(t) ==
    /\ turns[t].checks = turns[t].n202 + 1
    /\ \A g \in turns[t].gaps : g >= 1000
    /\ ~bubbles[turns[t].spinner].attached
    /\ turns[t].replyBubble \in BotNotices
    /\ Cardinality(BotNotices) =
          Cardinality({u \in DOMAIN turns : turns[u].pc \in {"done", "failed"}})

\* C37: when a turn ends nothing of the thinking indicator remains: its
\* wrapper (with avatar and replay control) is removed with its bubble, so
\* that, once every turn has ended, the number of bot-message entries equals
\* the number of bot replies and notices.
C37_IndicatorGone ==
    /\ \A t \in DOMAIN turns :
          turns[t].pc \in {"done", "failed"} => turns[t].spinner \notin BotMessages(UI)
    /\ (\A t \in DOMAIN turns : turns[t].pc \in {"done", "failed", "empty"})
          => Cardinality(BotMessages(UI)) = Cardinality(BotNotices)

C26_NoReplyPlaceholder ==
    \A t \in DOMAIN turns :
        (turns[t].pc = "done" /\ turns[t].reply = NoReply) =>
            /\ PollLoopDone(t)
            /\ bubbles[turns[t].replyBubble].sender = "bot"
            /\ bubbles[turns[t].replyBubble].text = NoResponse

\* a run answered 202 and then success without a reply field
C26_Witness ==
    \E t \in DOMAIN turns :
        /\ turns[t].pc = "done" /\ turns[t].n202 = 1 /\ turns[t].reply = NoReply
        /\ bubbles[turns[t].replyBubble].text = NoResponse
        /\ turns[t].replyBubble = Len(bubbles)

TurnHasFailed(t) ==
    turns[t].startSt \in {"http_error", "network"} \/ turns[t].pc = "failed"

\* C8: a failure anywhere in a turn (network error, non-success start-run
\* status, check-run status neither 202 nor success) ends the turn: the
\* thinking indicator is removed, exactly one apology bubble is rendered and
\* no further request is sent for the turn.
C8_FailureEndsTurn ==
    /\ \A t \in DOMAIN turns :
          TurnHasFailed(t) =>
              /\ turns[t].pc = "failed"
              /\ ~bubbles[turns[t].spinner].attached
              /\ turns[t].afterFail = 0
    /\ Cardinality({b \in DOMAIN bubbles : bubbles[b].text = ApologyText}) =
          Cardinality({t \in DOMAIN turns : TurnHasFailed(t)})

\* C33: a failed turn leaves thread_id unchanged: the step in which a
\* start-run request is answered without success (a non-success status or a
\* body without thread_id, or no answer at all), and the step in which a turn
\* fails later on, do not change thread_id, so that the next turn still
\* submits the thread established before.
C33_FailureKeepsThread ==
    [][\A t \in DOMAIN turns :
          \/ turns[t].pc = "start" /\ turns'[t].startSt \in {"http_error", "network"}
          \/ turns[t].pc # "failed" /\ turns'[t].pc = "failed"
          => thread_id' = thread_id]_vars

-----------------------------------------------------------------------------
(* Claims: recording                                                       *)

\* C3: at most one capture session is active at any time: never two
\* MediaRecorders recording simultaneously.
C3_OneCaptureSession ==
    Cardinality({s \in DOMAIN sess : sess[s].rec = "recording"}) <= 1

\* C4: the silence detector of a session calls stopRecording if and only if
\* the frames observed while its recorder recorded contain a run of
\* consecutive frames with loudness < 5 whose elapsed time is at least
\* 2000 ms.
C4_StopIffSilence ==
    \A s \in DOMAIN sess : sess[s].bySilence <=> sess[s].longQuiet

RecState == <<isRecording, hasStopped, mediaRecorder, mediaStream, chunks, micLabel, sess>>

C10_StreamReleased ==
    \A s \in DOMAIN sess :
        (sess[s].rec = "inactive" /\ sess[s].fin # "transcribing") => ~sess[s].live

\* C11: when getUserMedia rejects, the catch block leaves isRecording false
\* and the mic control with its idle label, renders one instructional bot
\* bubble and starts no recorder (so the next mic click calls startRecording
\* again).
C11_DenialLeavesIdle ==
    [][\A s \in DOMAIN sess :
          (sess[s].pc = "gum" /\ sess'[s].pc = "denied") =>
              /\ ~isRecording'
              /\ micLabel' = "idle"
              /\ Len(bubbles') = Len(bubbles) + 1
              /\ bubbles'[Len(bubbles')].sender = "bot"
              /\ bubbles'[Len(bubbles')].text = MicErrorText
              /\ sess'[s].rec = "none"]_vars

\* C31: the mic toggle can always stop an active recording: isRecording and
\* hasStopped are never both true (in such a state a click calls
\* stopRecording, which returns at once, and the recorder keeps running).
C31_ToggleCanStop ==
    ~(isRecording /\ hasStopped)

\* C32: the onstop finalizer of a session releases only that session's stream:
\* the step in which the transcription of session s completes stops the tracks
\* of no other session, and changes mediaStream only when it holds the stream
\* of s.
C32_FinalizerOwnStream ==
    [][\A s \in DOMAIN sess :
          (sess[s].fin = "transcribing" /\ sess'[s].fin # "transcribing")
          => /\ \A u \in DOMAIN sess \ {s} : sess'[u].live = sess[u].live
             /\ (mediaStream # s => mediaStream' = mediaStream)]_vars

-----------------------------------------------------------------------------
(* Claims: the silence detector                                            *)

\* C22: while a recording is active (startRecording has run to its end and
\* stop() has not been called on the session's recorder) a checkSilence
\* invocation of the session is pending.
C22_DetectorScheduled ==
    \A s \in DOMAIN sess : sess[s].rec = "recording" => sess[s].raf

\* C24: once stop() has been called on the recorder of a session, no
\* checkSilence invocation of that session requests another animation frame
\* or calls stopRecording, also when another recording is started before the
\* session's pending frame callback runs.
C24_DetectorEnds ==
    [][\A s \in DOMAIN sess :
          (sess[s].rec \in {"stopping", "inactive"}
             /\ presses'.frame # presses.frame) =>
              /\ ~sess'[s].raf
              /\ sess'[s].bySilence = sess[s].bySilence]_vars

\* the detector of session s measures the frame that starts now
Measures(s) == sess[s].raf /\ ~hasStopped /\ isRecording

\* C23: a frame with loudness >= 5 that a detector measures leaves its
\* silenceStart null (and the detector scheduled, without a stop), and a
\* detector stops the recording only on a silent frame, with a silenceStart
\* that an earlier silent frame has set and that is more than maxSilence old:
\* a loud frame in between has unset it.
C23_LoudFrameResets ==
    [][\A dt \in FrameGaps, data \in Buffers :
          Frame(dt, data) =>
              \A s \in DOMAIN sess :
                  /\ (Measures(s) /\ ~IsSilent(data)) =>
                         /\ sess'[s].silence = -1
                         /\ sess'[s].raf
                         /\ sess'[s].bySilence = sess[s].bySilence
                  /\ (sess'[s].bySilence /\ ~sess[s].bySilence) =>
                         /\ IsSilent(data)
                         /\ sess[s].silence # -1
                         /\ sess[s].silence + dt > maxSilence]_vars

\* a detector has measured a silent sample and then a loud frame: its timer
\* is unset again and it is scheduled for the next frame
C23_Witness ==
    \E s \in DOMAIN sess :
        sess[s].reset /\ sess[s].raf /\ sess[s].silence = -1

-----------------------------------------------------------------------------
(* Claims: the variant with the transcription guard (part_000)             *)

\* C12: at most one transcribe request is in flight at any time (a call of
\* sendAudioForTranscription made while an earlier transcription has not
\* finished sends no request).
C12_OneTranscription ==
    Cardinality({s \in DOMAIN sess : sess[s].fin = "transcribing"}) <= 1

-----------------------------------------------------------------------------
(* Claims: transcription results                                           *)

Answered(s, kind) == sess[s].answer.kind = "none" /\ sess'[s].answer.kind = kind

NewBotBubble(text) ==
    /\ Len(bubbles') = Len(bubbles) + 1
    /\ SubSeq(bubbles', 1, Len(bubbles)) = bubbles
    /\ bubbles'[Len(bubbles')].sender = "bot"
    /\ bubbles'[Len(bubbles')].text = text

\* C13: when the transcribe endpoint answers success with empty recognized
\* text, no message is submitted (no submit event, no user bubble, no
\* start-run request) and exactly one bot bubble asking the user to try
\* again is shown.
C13_EmptyTranscript ==
    [][\A s \in DOMAIN sess :
          (Answered(s, "ok") /\ sess'[s].answer.text = <<>>) =>
              /\ NewBotBubble(DidntCatch)
              /\ UNCHANGED <<turns, startLog>>]_vars

\* the answer {text: ""} has been handled
C13_Witness ==
    \E s \in DOMAIN sess :
        /\ sess[s].answer = [kind |-> "ok", text |-> <<>>]
        /\ \E b \in DOMAIN bubbles : bubbles[b].text = DidntCatch

\* C14: when the transcribe endpoint answers with a non-success HTTP status,
\* exactly one bot bubble "couldn't transcribe" is shown, the message input
\* is left unchanged and no message is submitted.
C14_TranscribeHttpError ==
    [][\A s \in DOMAIN sess :
          Answered(s, "http_error") =>
              /\ NewBotBubble(CouldntText)
              /\ UNCHANGED <<inputValue, turns, startLog>>]_vars

\* a non-success answer has been handled while the input held a draft
C14_Witness ==
    /\ inputValue # <<>>
    /\ \E s \in DOMAIN sess : sess[s].answer.kind = "http_error"
    /\ \E b \in DOMAIN bubbles : bubbles[b].text = CouldntText

VoiceAttempts == {s \in DOMAIN sess : sess[s].answer.kind # "none"}

VoiceOutcomes ==
    {b \in DOMAIN bubbles :
        \/ bubbles[b].sender = "user"
        \/ bubbles[b].text \in {CouldntText, DidntCatch, WentWrongText}}

\* C34: every transcription attempt whose request has completed ends with
\* exactly one visible outcome, the user bubble of the submitted message or
\* one bot failure bubble: once the submit handlers have run, there are as
\* many such bubbles as completed attempts (no recognized text, a text of
\* white space included, ends with neither).
C34_OneVisibleOutcome ==
    (\A t \in DOMAIN turns : turns[t].pc # "unlock")
        => Cardinality(VoiceOutcomes) = Cardinality(VoiceAttempts)

\* C15: when transcription succeeds with non-empty text t, t is written into
\* the message input and the normal send path runs: the step leaves the
\* message input, the pending submit handlers and the transcript as typing t
\* and submitting the form does (Type(t), then Submit).
C15_VoiceLikeTyping ==
    [][\A s \in DOMAIN sess :
          (Answered(s, "ok") /\ sess'[s].answer.text # <<>>) =>
              /\ inputValue' = sess'[s].answer.text
              /\ turns' = Append(turns, NewTurn)
              /\ [bubbles |-> bubbles', utt |-> utt', synthQ |-> synthQ',
                  speaking |-> synthSpeaking',
                  ttsRequests |-> ttsRequests'] = SubmitHandler(UI)
              /\ UNCHANGED <<thread_id, startLog>>]_vars

\* the text "a" was recognized and the submit handler has sent it: user
\* bubble, thinking indicator, start-run request
C15_Witness ==
    /\ \E s \in DOMAIN sess : sess[s].answer = [kind |-> "ok", text |-> <<"a">>]
    /\ \E t \in DOMAIN turns :
          /\ turns[t].pc = "start" /\ turns[t].msg = <<"a">>
          /\ bubbles[turns[t].spinner - 1].sender = "user"
          /\ bubbles[turns[t].spinner - 1].text = <<"a">>
    /\ startLog # <<>>

-----------------------------------------------------------------------------
(* Claims: citation markers                                                *)

HasMarker(s) == \E i \in DOMAIN s : MatchEnd(s, i) # 0

\* C16: for every reply text, the text rendered in a bot bubble contains no
\* citation marker, and stripCitations applied to it again changes nothing
\* (stripCitations applied twice equals stripCitations applied once).
C16_NoMarkerRendered ==
    \A b \in DOMAIN bubbles :
        bubbles[b].sender = "bot" =>
            /\ ~HasMarker(bubbles[b].text)
            /\ stripCitations(bubbles[b].text) = bubbles[b].text

\* C27: in the variants that repair citations, the text rendered in a bot
\* bubble contains no citation marker of the canonical form, also when the
\* reply contains the malformed variant.
C27_NoMarkerAfterRepair ==
    \A b \in DOMAIN bubbles :
        bubbles[b].sender = "bot" => ~HasMarker(bubbles[b].text)

-----------------------------------------------------------------------------
(* Claims: the dual-voice variant (part_000)                               *)

Fallbacks(i) == {f \in DOMAIN utt : utt[f].kind = "browser" /\ utt[f].of = i}

\* C36: each speak request produces at most one audible rendition: for every
\* function of speakServer the browser fallback is enqueued at most once,
\* also when both the error event of the audio and the rejection of play()
\* occur.
C36_OneFallback ==
    \A i \in DOMAIN utt :
        utt[i].kind = "server" => Cardinality(Fallbacks(i)) <= 1

\* C17: when remote synthesis or playback of utterance u fails, the
\* local-voice fallback for u starts before any utterance that was enqueued
\* after u: no utterance enqueued after u has started while the fallback
\* of u still waits.
C17_FallbackInPlace ==
    \A f \in DOMAIN utt :
        (utt[f].kind = "browser" /\ utt[f].st = "queued") =>
            \A j \in (utt[f].of + 1)..(f - 1) : utt[j].st = "queued"

-----------------------------------------------------------------------------
(* Claims: the replay control                                              *)

BotBubbles(bs) == {b \in DOMAIN bs : bs[b].sender = "bot"}

\* C18: the replay control never issues a request to the synthesis endpoint:
\* a replay click plays the bubble's cached audio when one is attached and
\* otherwise speaks with the local voice, and the number of tts requests
\* equals the number of bot bubbles rendered, whatever the number of replay
\* clicks.
C18_ReplayUsesCache ==
    [][/\ ttsRequests' = Cardinality(BotBubbles(bubbles'))
       /\ presses'.replay # presses.replay =>
              /\ ttsRequests' = ttsRequests
              /\ bubbles' = bubbles
              /\ \/ /\ Len(audios') = Len(audios) + 1
                    /\ bubbles[audios'[Len(audios')].bubble].tts = "ok"
                    /\ Len(utt') = Len(utt)
                 \/ /\ audios' = audios
                    /\ Len(utt') = Len(utt) + 1
                    /\ bubbles[utt'[Len(utt')].bubble].tts # "ok"
                 \/ /\ audios' = audios
                    /\ utt' = utt
                    /\ \E b \in BotBubbles(bubbles) :
                          bubbles[b].tts # "ok"
                            /\ Trim(stripHtmlTags(bubbles[b].text)) = <<>>]_vars

\* two replay clicks, one on a bubble with cached audio and one on a bubble
\* without, and as many tts requests as bot bubbles
C18_Witness ==
    /\ presses.replay = 2
    /\ audios # <<>>
    /\ \E i \in DOMAIN utt : ~utt[i].auto
    /\ ttsRequests = 2

-----------------------------------------------------------------------------
(* Claims: failures                                                        *)

\* a permission denial, a transcription failure, a conversation failure or a
\* synthesis failure has occurred
Failures ==
    (IF \E s \in DOMAIN sess : sess[s].pc = "denied" THEN {"permission"} ELSE {})
    \cup (IF \E s \in DOMAIN sess : sess[s].answer.kind \in {"http_error", "network"}
          THEN {"transcription"} ELSE {})
    \cup (IF \E t \in DOMAIN turns : TurnHasFailed(t) THEN {"conversation"} ELSE {})
    \cup (IF \E b \in DOMAIN bubbles : bubbles[b].tts = "failed"
          THEN {"synthesis"} ELSE {})

\* C19: no failure disables the chat: in every state reached after a
\* permission denial, a transcription failure, a conversation failure or a
\* synthesis failure, a submit handler that finds a non-empty message in the
\* input renders the user bubble and issues a start-run request.
C19_ChatStaysUsable ==
    [][\A t \in DOMAIN turns :
          (/\ Failures # {}
           /\ turns[t].pc = "unlock" /\ turns'[t].pc # "unlock"
           /\ Trim(inputValue) # <<>>) =>
              /\ turns'[t].pc = "start"
              /\ turns'[t].msg = Trim(inputValue)
              /\ Len(bubbles') = Len(bubbles) + 2
              /\ bubbles'[Len(bubbles) + 1].sender = "user"
              /\ bubbles'[Len(bubbles) + 1].text = Trim(inputValue)
              /\ startLog' = Append(startLog, <<"req", thread_id>>)]_vars

\* after failures of all four kinds, a message has been sent
C19_Witness ==
    /\ Failures = {"permission", "transcription", "conversation", "synthesis"}
    /\ \E t \in DOMAIN turns :
          /\ turns[t].pc = "start"
          /\ \E u \in 1..(t - 1) : turns[u].pc = "failed"


\* ==========================================================================
\* The transcribe proxy: exports.handler of netlify/functions/transcribe.js.
\* One invocation is at hand at a time (the function keeps no state between
\* invocations).  An event is abstracted to what the handler looks at:
\*   httpMethod, the Origin header, and the kind of body
\*     "absent"     no body (event.body is empty, read as "{}")
\*     "invalid"    a body that JSON.parse rejects
\*     "null"       the JSON text null, which cannot be destructured
\*     "no_audio"   a JSON object with no (or a falsy) audioBase64
\*     "bad_audio"  audioBase64 is truthy but no string: Buffer.from throws
\*     "audio"      audioBase64 is a base64 string
\* and the environment to whether OPENAI_API_KEY is set.
\* ==========================================================================

allowedOrigins ==
    <<"https://masterplumbers.org.nz",
      "https://resilient-palmier-22bdf1.netlify.app",
      "https://caitskinz.github.io/tobytest/">>

Origins ==
    {"none", "https://masterplumbers.org.nz",
     "https://resilient-palmier-22bdf1.netlify.app",
     "https://caitskinz.github.io/tobytest/", "https://evil.example"}

Methods == {"OPTIONS", "POST", "GET", "PUT"}

Bodies == {"absent", "invalid", "null", "no_audio", "bad_audio", "audio"}

Events == [httpMethod : Methods, origin : Origins, body : Bodies]

\* What the upstream transcription call can come to.
Upstreams ==
    {[kind |-> "reject", text |-> <<>>],          \* fetch throws
     [kind |-> "not_ok", text |-> <<>>],          \* resp.ok is false
     [kind |-> "ok_unreadable", text |-> <<>>],   \* resp.json() throws
     [kind |-> "ok_no_text", text |-> <<>>],      \* JSON without text
     [kind |-> "ok", text |-> <<>>],              \* text is ""
     [kind |-> "ok", text |-> <<"a">>]}

\* a slip: the request origin echoed back
corsOrigin_echo(origin) ==
    IF origin = "none" THEN allowedOrigins[1] ELSE origin

corsOrigin(origin) ==
    IF \E i \in 1..Len(allowedOrigins) : allowedOrigins[i] = origin
    THEN origin
    ELSE allowedOrigins[1]

\* A returned response; "calls" counts the upstream requests it took.
Response(event, key, statusCode, body, calls) ==
    [pc |-> "responded", event |-> event, key |-> key,
     statusCode |-> statusCode, body |-> body,
     allowOrigin |-> corsOrigin(event.origin), calls |-> calls]

\* The catch block.
Caught(event, key, calls) ==
    Response(event, key, 500, [error |-> "Internal server error"], calls)

\* Test order with the credential looked at before the audio.
handler_keyFirst(event, key) ==
    IF event.httpMethod = "OPTIONS"
    THEN Response(event, key, 200, [plain |-> ""], 0)
    ELSE IF event.httpMethod # "POST"
    THEN Response(event, key, 405, [plain |-> "Method Not Allowed"], 0)
    ELSE IF event.body \in {"invalid", "null"}
    THEN Caught(event, key, 0)
    ELSE IF ~key
    THEN Response(event, key, 500,
                  [error |-> "Server missing OPENAI_API_KEY"], 0)
    ELSE IF event.body \in {"absent", "no_audio"}
    THEN Response(event, key, 400, [error |-> "Missing audioBase64"], 0)
    ELSE IF event.body = "bad_audio"
    THEN Caught(event, key, 0)
    ELSE [pc |-> "upstream", event |-> event, key |-> key]

\* The handler up to its first await: either a response, or the upstream
\* request in flight.
handler(event, key) ==
    IF event.httpMethod = "OPTIONS"
    THEN Response(event, key, 200, [plain |-> ""], 0)
    ELSE IF event.httpMethod # "POST"
    THEN Response(event, key, 405, [plain |-> "Method Not Allowed"], 0)
    ELSE IF event.body \in {"invalid", "null"}
    THEN Caught(event, key, 0)
    ELSE IF event.body \in {"absent", "no_audio"}
    THEN Response(event, key, 400, [error |-> "Missing audioBase64"], 0)
    ELSE IF ~key
    THEN Response(event, key, 500,
                  [error |-> "Server missing OPENAI_API_KEY"], 0)
    ELSE IF event.body = "bad_audio"
    THEN Caught(event, key, 0)
    ELSE [pc |-> "upstream", event |-> event, key |-> key]

\* The handler from the upstream answer on.
handlerResume(event, key, up) ==
    IF up.kind = "reject"
    THEN Caught(event, key, 1)
    ELSE IF up.kind = "not_ok"
    THEN Response(event, key, 502, [error |-> "OpenAI STT failed"], 1)
    ELSE IF up.kind = "ok_unreadable"
    THEN Caught(event, key, 1)
    ELSE Response(event, key, 200,
                  [text |-> IF up.kind = "ok" THEN up.text ELSE <<>>], 1)

PageVars ==
    <<chatVars, uiVars, recVars, audios, inputValue, presses, synthFails>>

\* An event arrives and the handler runs to its first await or its return.
Invoke(event, key) ==
    /\ proxy.pc \in {"idle", "responded"}
    /\ proxy' = handler(event, key)
    /\ UNCHANGED PageVars

\* The upstream call settles and the handler runs to its return.
UpstreamResp(up) ==
    /\ proxy.pc = "upstream"
    /\ proxy' = handlerResume(proxy.event, proxy.key, up) @@
                [upstream |-> up]
    /\ UNCHANGED PageVars

NextProxy ==
    \/ \E event \in Events, key \in BOOLEAN : Invoke(event, key)
    \/ \E up \in Upstreams : UpstreamResp(up)

SpecProxy == Init /\ [][NextProxy]_vars

\* The upstream answer of the invocation at hand, if the call was made.
Answer ==
    IF "upstream" \in DOMAIN proxy
    THEN proxy.upstream
    ELSE [kind |-> "none", text |-> <<>>]

\* The body the handler gives with a 200.
OkBody ==
    IF proxy.event.httpMethod = "OPTIONS"
    THEN [plain |-> ""]
    ELSE [text |-> IF Answer.kind = "ok" THEN Answer.text ELSE <<>>]

\* C20 (as stated): the status is decided by the first rule that applies:
\* OPTIONS gives 200 with an empty body; any other non-POST method 405; a
\* body without audioBase64 400; a missing credential 500; an upstream answer
\* that is not ok 502; everything else 200 with {text}, text being the
\* upstream text or "".  No upstream call is made for a request answered 405,
\* 400 or 500.
C20_StatusRules ==
    proxy.pc = "responded" =>
        LET e == proxy.event
            status ==
                IF e.httpMethod = "OPTIONS" THEN 200
                ELSE IF e.httpMethod # "POST" THEN 405
                ELSE IF e.body \in {"absent", "invalid", "null", "no_audio"}
                THEN 400
                ELSE IF ~proxy.key THEN 500
                ELSE IF Answer.kind = "not_ok" THEN 502
                ELSE 200
        IN  /\ proxy.statusCode = status
            /\ proxy.statusCode = 200 => proxy.body = OkBody
            /\ proxy.statusCode \in {405, 400, 500} => proxy.calls = 0

\* C20 (amended): the status is decided by the first rule that applies:
\* OPTIONS gives 200 with an empty body; any other non-POST method 405; a
\* body that is no JSON object 500; a body without audioBase64 400; a
\* missing credential 500; an audioBase64 that cannot be decoded 500; an
\* upstream call that fails 500; an upstream answer that is not ok 502; an
\* upstream answer that cannot be read 500; everything else 200 with {text},
\* text being the upstream text or "".  A JSON request lacking both audio and
\* credential gets 400, and an upstream call is made exactly for the requests
\* decided by one of the three upstream rules or answered 200 to a POST.
C20_StatusRulesAmended ==
    proxy.pc = "responded" =>
        LET e == proxy.event
            early ==
                \/ e.httpMethod # "POST"
                \/ e.body # "audio"
                \/ ~proxy.key
            status ==
                IF e.httpMethod = "OPTIONS" THEN 200
                ELSE IF e.httpMethod # "POST" THEN 405
                ELSE IF e.body \in {"invalid", "null"} THEN 500
                ELSE IF e.body \in {"absent", "no_audio"} THEN 400
                ELSE IF ~proxy.key THEN 500
                ELSE IF e.body = "bad_audio" THEN 500
                ELSE IF Answer.kind = "reject" THEN 500
                ELSE IF Answer.kind = "not_ok" THEN 502
                ELSE IF Answer.kind = "ok_unreadable" THEN 500
                ELSE 200
        IN  /\ proxy.statusCode = status
            /\ proxy.statusCode = 200 => proxy.body = OkBody
            /\ proxy.calls = (IF early THEN 0 ELSE 1)
            /\ proxy.statusCode \in {405, 400} => proxy.calls = 0

\* Each amended rule has decided an invocation: here the answer to a POST
\* with audio and credential whose upstream call failed.
C20_Witness ==
    /\ proxy.pc = "responded"
    /\ proxy.event.httpMethod = "POST"
    /\ proxy.event.body = "audio"
    /\ proxy.key
    /\ Answer.kind = "reject"
    /\ proxy.statusCode = 500
    /\ proxy.calls = 1

AllowList == {allowedOrigins[i] : i \in 1..Len(allowedOrigins)}

\* C21: every response of the proxy, on every path, carries an
\* Access-Control-Allow-Origin value from the allow-list: the request origin
\* when that origin is in the list, the first list entry otherwise; an origin
\* outside the list is never echoed back.
C21_AllowOriginFromList ==
    proxy.pc = "responded" =>
        /\ proxy.allowOrigin \in AllowList
        /\ proxy.event.origin \in AllowList =>
               proxy.allowOrigin = proxy.event.origin
        /\ proxy.event.origin \notin AllowList =>
               /\ proxy.allowOrigin = allowedOrigins[1]
               /\ proxy.allowOrigin # proxy.event.origin

\* the caught-exception path has answered a request from an origin outside
\* the list
C21_Witness ==
    /\ proxy.pc = "responded"
    /\ proxy.event.origin = "https://evil.example"
    /\ proxy.body = [error |-> "Internal server error"]
    /\ proxy.calls = 1
    /\ proxy.allowOrigin = "https://masterplumbers.org.nz"

=============================================================================
